---------------------------- MODULE Spec2Model ----------------------------
(***************************************************************************)
(* The background-image generators of Tasky:                               *)
(*   scripts/generate_png_backgrounds.py     (the gradient driver)         *)
(*   scripts/generate_epic_backgrounds.py    (the epic driver)             *)
(*   scripts/generate_unique_backgrounds.py  (the unique driver)           *)
(* One process runs one driver from its __main__ block to the end.  The    *)
(* state is the process's position, the loop variables of the driver, the  *)
(* global pseudo-random generator, the file system under the output       *)
(* directory and what the process printed.                                 *)
(*                                                                         *)
(* An image is a canvas: its size, the flat colour it was created with and *)
(* the drawing calls made on it, in order.  A Pillow drawing call with a   *)
(* fill colour sets every pixel it covers to that colour, so the colour of *)
(* a pixel is the fill of the last call that covers it (PixelAt).          *)
(***************************************************************************)
EXTENDS Integers, Sequences, FiniteSets, TLC

(***************************************************************************)
(* Bounds of the model.                                                    *)
(***************************************************************************)
\* themes in a colour-configuration document
MaxThemes == 2
\* operations (a render or a save) that raise in one run
MaxFaults == 1
\* states the generator may be in when the process starts (0..MaxEntropy)
MaxEntropy == 1

Min(a, b) == IF a < b THEN a ELSE b
Max(a, b) == IF a > b THEN a ELSE b
Abs(a) == IF a < 0 THEN -a ELSE a

(***************************************************************************)
(* hex_to_rgb.  A string is a sequence of one-character strings.           *)
(***************************************************************************)
HexDigit == {"0","1","2","3","4","5","6","7","8","9",
             "a","b","c","d","e","f","A","B","C","D","E","F"}

HexVal(c) ==
  CASE c = "0" -> 0  [] c = "1" -> 1  [] c = "2" -> 2  [] c = "3" -> 3
    [] c = "4" -> 4  [] c = "5" -> 5  [] c = "6" -> 6  [] c = "7" -> 7
    [] c = "8" -> 8  [] c = "9" -> 9
    [] c \in {"a","A"} -> 10 [] c \in {"b","B"} -> 11 [] c \in {"c","C"} -> 12
    [] c \in {"d","D"} -> 13 [] c \in {"e","E"} -> 14 [] c \in {"f","F"} -> 15

\* str.lstrip('#'): every leading '#' is removed
RECURSIVE lstrip(_)
lstrip(s) == IF s # <<>> /\ Head(s) = "#" THEN lstrip(Tail(s)) ELSE s

\* s[i:j] of Python, i and j counted from 0, clipped to the string
Slice(s, i, j) == SubSeq(s, i + 1, Min(j, Len(s)))

\* str.strip() of the at most two characters int() is given
StripLeft(t) == IF t # <<>> /\ Head(t) = " " THEN Tail(t) ELSE t
StripRight(t) == IF t # <<>> /\ t[Len(t)] = " " THEN SubSeq(t, 1, Len(t) - 1) ELSE t
StripSpace(t) == StripLeft(StripLeft(StripRight(t)))

\* int(t, 16) for a slice t of at most two characters: surrounding blanks
\* and one sign are accepted, then one or two hex digits; anything else
\* raises ValueError (ok = FALSE)
HexNumber(d) == IF Len(d) = 1 THEN HexVal(d[1]) ELSE 16 * HexVal(d[1]) + HexVal(d[2])
ParseDigits(d) ==
  IF Len(d) \in {1, 2} /\ \A k \in 1..Len(d) : d[k] \in HexDigit
    THEN [ok |-> TRUE, val |-> HexNumber(d)]
    ELSE [ok |-> FALSE, val |-> 0]
Negated(p) == [p EXCEPT !.val = -@]
ParseSigned(u) ==
  IF u # <<>> /\ Head(u) = "-" THEN Negated(ParseDigits(Tail(u)))
  ELSE IF u # <<>> /\ Head(u) = "+" THEN ParseDigits(Tail(u))
  ELSE ParseDigits(u)
ParseInt16(t) == ParseSigned(StripSpace(t))

\* tuple(...) of the three channels, or the ValueError of one of them
Channels(r, g, b) ==
  IF r.ok /\ g.ok /\ b.ok
    THEN [ok |-> TRUE, rgb |-> <<r.val, g.val, b.val>>]
    ELSE [ok |-> FALSE, rgb |-> <<>>]
\* the three channels read in the order blue, green, red
ParseChannelsReversed(h) ==
  Channels(ParseInt16(Slice(h, 4, 6)), ParseInt16(Slice(h, 2, 4)),
           ParseInt16(Slice(h, 0, 2)))
ParseChannels(h) ==
  Channels(ParseInt16(Slice(h, 0, 2)), ParseInt16(Slice(h, 2, 4)),
           ParseInt16(Slice(h, 4, 6)))

hex_to_rgb(hex_color) == ParseChannels(lstrip(hex_color))

(***************************************************************************)
(* The global generator of the random module, as a linear congruential     *)
(* generator: each call of randint, choice, uniform or random reads the    *)
(* state and advances it by one step.                                      *)
(***************************************************************************)
RngMod == 65537
RngNext(s) == (s * 75 + 74) % RngMod
random_seed(a) == a % RngMod
\* random.randint(a, b) read off state s
randint(s, a, b) == a + (s % (b - a + 1))
\* random.choice(seq) read off state s
choice(s, seq) == seq[1 + (s % Len(seq))]
\* random.random() and random.uniform(lo, hi), in thousandths
random1000(s) == s % 1000
uniform1000(s, lo, hi) == lo + (s % (hi - lo + 1))

(***************************************************************************)
(* Canvases and drawing calls.                                             *)
(***************************************************************************)
\* int(bg*(1 - a) + c*a) for one channel, a = num/den in [0, 1]
BlendChannel(bg, c, num, den) == (bg * (den - num) + c * num) \div den
Blend(bg, color, num, den) ==
  <<BlendChannel(bg[1], color[1], num, den),
    BlendChannel(bg[2], color[2], num, den),
    BlendChannel(bg[3], color[3], num, den)>>

\* Image.new('RGB', (width, height), bg_color)
NewImage(w, h, bg) == [width |-> w, height |-> h, bg |-> bg, ops |-> <<>>]

\* one drawing call: the shape, its bounding box (inclusive), the colour
\* passed as fill, and the palette colour and opacity num/den it was
\* computed from
DrawOp(shape, x0, y0, x1, y1, fill, color, num, den) ==
  [shape |-> shape, x0 |-> x0, y0 |-> y0, x1 |-> x1, y1 |-> y1,
   fill |-> fill, color |-> color, num |-> num, den |-> den]

Draw(image, op) == [image EXCEPT !.ops = Append(@, op)]


\* whether drawing call op paints pixel (px, py).  Rectangles and points
\* are exact; an ellipse is the set of pixels within its inscribed curve, a
\* diamond, triangle or hexagon the pixels within the polygon, measured
\* from the centre of the bounding box (Pillow's rasteriser may differ on
\* the outline pixels).
Covers(op, px, py) ==
  LET cx2 == op.x0 + op.x1
      cy2 == op.y0 + op.y1
      rx2 == op.x1 - op.x0
      ry2 == op.y1 - op.y0
      dx2 == Abs(2 * px - cx2)
      dy2 == Abs(2 * py - cy2)
      inbox == op.x0 <= px /\ px <= op.x1 /\ op.y0 <= py /\ py <= op.y1
  IN CASE op.shape \in {"rect", "point"} -> inbox
       [] op.shape = "circle" ->
            inbox /\ dx2 * dx2 * ry2 * ry2 + dy2 * dy2 * rx2 * rx2
                       <= rx2 * rx2 * ry2 * ry2
       [] op.shape = "diamond" ->
            inbox /\ dx2 * ry2 + dy2 * rx2 <= rx2 * ry2
       [] op.shape = "triangle" ->
            \* apex at the top centre, base along the bottom edge
            inbox /\ dx2 * ry2 <= rx2 * (py - op.y0)
       [] op.shape = "hexagon" ->
            \* vertices at angles 0, 60, ..., 300 degrees on the circle of
            \* radius rx2/2; sqrt(3) taken as 1732/1000
            inbox /\ 1000 * dy2 <= 866 * rx2
                  /\ 1732 * dx2 + 1000 * dy2 <= 1732 * rx2

\* the colour of pixel (px, py) after the first n drawing calls on image
RECURSIVE PixelAfter(_, _, _, _)
PixelAfter(image, n, px, py) ==
  IF n = 0 THEN image.bg
  ELSE IF Covers(image.ops[n], px, py) THEN image.ops[n].fill
  ELSE PixelAfter(image, n - 1, px, py)

PixelAt(image, px, py) == PixelAfter(image, Len(image.ops), px, py)

(***************************************************************************)
(* The renderers.  A renderer state st is the generator state, the canvas  *)
(* and the index i of the running loop; every random draw advances st.rng  *)
(* by one step, every iteration advances st.i.                             *)
(***************************************************************************)
\* a shape drawn in its palette colour, at full opacity
CentredOpOpaque(shape, x, y, size, fill, color, num, den) ==
  DrawOp(shape, x - size \div 2, y - size \div 2, x + size \div 2, y + size \div 2,
         color, color, den, den)

\* the square bounding box [x - size//2, y - size//2, x + size//2, y + size//2]
CentredOp(shape, x, y, size, fill, color, num, den) ==
  DrawOp(shape, x - size \div 2, y - size \div 2, x + size \div 2, y + size \div 2,
         fill, color, num, den)

\* len(range(start, stop, step)) for step > 0
RangeLen(start, stop, step) ==
  IF stop <= start THEN 0 ELSE (stop - start + step - 1) \div step

\* the state a loop starts in, and the state its caller continues in
LoopStart(rng, image) == [rng |-> rng, image |-> image, i |-> 0]
LoopEnd(inner, st) == [rng |-> inner.rng, image |-> inner.image, i |-> st.i + 1]

---------------------------------------------------------------------------
\* generate_epic_backgrounds.py: create_dracula_background
epic_dracula_bg(is_dark) == IF is_dark THEN <<40, 42, 54>> ELSE <<248, 248, 242>>
epic_dracula_accents ==
  << <<255, 121, 198>>, <<189, 147, 249>>, <<139, 233, 253>>, <<80, 250, 123>> >>
epic_dracula_count == 20

\* one iteration of "for _ in range(20)"
epic_dracula_element(st, width, height, is_dark) ==
  LET s1 == RngNext(st.rng)
      x == randint(s1, 0, width)
      s2 == RngNext(s1)
      y == randint(s2, 0, height)
      s3 == RngNext(s2)
      size == randint(s3, 30, 80)
      s4 == RngNext(s3)
      color == choice(s4, epic_dracula_accents)
      \* alpha = 0.15 if is_dark else 0.08
      num == IF is_dark THEN 15 ELSE 8
      final_color == Blend(epic_dracula_bg(is_dark), color, num, 100)
      s5 == RngNext(s4)
      shape == choice(s5, <<"circle", "rect", "diamond", "hexagon">>)
  IN [rng |-> s5,
      image |-> Draw(st.image, CentredOp(shape, x, y, size, final_color, color, num, 100)),
      i |-> st.i + 1]

RECURSIVE epic_dracula_loop(_, _, _, _)
epic_dracula_loop(st, width, height, is_dark) ==
  IF st.i >= epic_dracula_count THEN st
  ELSE epic_dracula_loop(epic_dracula_element(st, width, height, is_dark),
                         width, height, is_dark)

epic_create_dracula_background(rng, width, height, is_dark) ==
  epic_dracula_loop(LoopStart(rng, NewImage(width, height, epic_dracula_bg(is_dark))),
                    width, height, is_dark)

---------------------------------------------------------------------------
\* generate_epic_backgrounds.py: create_hollow_knight_background
epic_hollow_bg(is_dark) == IF is_dark THEN <<5, 5, 8>> ELSE <<240, 240, 245>>
epic_hollow_colors(is_dark) ==
  IF is_dark
    THEN << <<64, 64, 96>>, <<96, 96, 128>>, <<128, 128, 160>>, <<160, 160, 192>> >>
    ELSE << <<200, 200, 220>>, <<180, 180, 200>>, <<160, 160, 180>>, <<140, 140, 160>> >>
epic_hollow_wisps == 30
epic_hollow_layers == 4
epic_hollow_particles == 50

\* "for layer in range(4)" of one wisp (layer = st.i); alpha in thousandths
RECURSIVE epic_hollow_layer_loop(_, _, _, _, _, _, _)
epic_hollow_layer_loop(st, x, y, color, base_size, alpha, is_dark) ==
  LET layer == st.i
      layer_size == base_size - layer * 8
      s1 == RngNext(st.rng)
      offset_x == randint(s1, -layer * 3, layer * 3)
      s2 == RngNext(s1)
      offset_y == randint(s2, -layer * 3, layer * 3)
      \* layer_alpha = alpha * (1 - layer * 0.2)
      num == alpha * (10 - 2 * layer)
      final_color == Blend(epic_hollow_bg(is_dark), color, num, 10000)
      drawn == [rng |-> s2,
                image |-> Draw(st.image,
                   CentredOp("circle", x + offset_x, y + offset_y, layer_size,
                             final_color, color, num, 10000)),
                i |-> layer + 1]
  IN IF layer >= epic_hollow_layers \/ layer_size <= 0 THEN st
     ELSE epic_hollow_layer_loop(drawn, x, y, color, base_size, alpha, is_dark)

\* one iteration of "for _ in range(30)"
epic_hollow_wisp(st, width, height, is_dark) ==
  LET s1 == RngNext(st.rng)
      x == randint(s1, 0, width)
      s2 == RngNext(s1)
      y == randint(s2, 0, height)
      s3 == RngNext(s2)
      color == choice(s3, epic_hollow_colors(is_dark))
      s4 == RngNext(s3)
      base_size == randint(s4, 30, 80)
      s5 == RngNext(s4)
      alpha == uniform1000(s5, 150, 400)
  IN LoopEnd(epic_hollow_layer_loop(LoopStart(s5, st.image), x, y, color, base_size,
                                    alpha, is_dark),
             st)

\* one iteration of "for _ in range(50)"
epic_hollow_particle(st, width, height, is_dark) ==
  LET s1 == RngNext(st.rng)
      x == randint(s1, 0, width)
      s2 == RngNext(s1)
      y == randint(s2, 0, height)
      s3 == RngNext(s2)
      size == randint(s3, 1, 3)
      s4 == RngNext(s3)
      color == choice(s4, epic_hollow_colors(is_dark))
      s5 == RngNext(s4)
      alpha == uniform1000(s5, 300, 700)
      final_color == Blend(epic_hollow_bg(is_dark), color, alpha, 1000)
  IN [rng |-> s5,
      image |-> Draw(st.image,
                     DrawOp("circle", x - size, y - size, x + size, y + size,
                            final_color, color, alpha, 1000)),
      i |-> st.i + 1]

RECURSIVE epic_hollow_wisp_loop(_, _, _, _)
epic_hollow_wisp_loop(st, width, height, is_dark) ==
  IF st.i >= epic_hollow_wisps THEN st
  ELSE epic_hollow_wisp_loop(epic_hollow_wisp(st, width, height, is_dark),
                             width, height, is_dark)

RECURSIVE epic_hollow_particle_loop(_, _, _, _)
epic_hollow_particle_loop(st, width, height, is_dark) ==
  IF st.i >= epic_hollow_particles THEN st
  ELSE epic_hollow_particle_loop(epic_hollow_particle(st, width, height, is_dark),
                                 width, height, is_dark)

epic_hollow_wisps_done(rng, width, height, is_dark) ==
  epic_hollow_wisp_loop(LoopStart(rng, NewImage(width, height, epic_hollow_bg(is_dark))),
                        width, height, is_dark)

epic_create_hollow_knight_background(rng, width, height, is_dark) ==
  epic_hollow_particle_loop(
    LoopStart(epic_hollow_wisps_done(rng, width, height, is_dark).rng,
              epic_hollow_wisps_done(rng, width, height, is_dark).image),
    width, height, is_dark)

---------------------------------------------------------------------------
\* generate_epic_backgrounds.py: create_matrix_background
epic_matrix_bg(is_dark) == IF is_dark THEN <<0, 0, 0>> ELSE <<250, 250, 250>>
epic_matrix_text_colors(is_dark) ==
  IF is_dark
    THEN << <<0, 255, 0>>, <<0, 200, 0>>, <<0, 150, 0>>, <<0, 100, 0>> >>
    ELSE << <<0, 100, 0>>, <<0, 80, 0>>, <<0, 60, 0>>, <<0, 40, 0>> >>
epic_matrix_col_width == 18
epic_matrix_char_size == 14
epic_matrix_pixels == 3

\* "for _ in range(3)": the random pixels around one character
\* the scattered pixels drawn wherever they fall, on the canvas or not
RECURSIVE epic_matrix_pixel_loop_unchecked(_, _, _, _, _, _)
epic_matrix_pixel_loop_unchecked(st, col, y, color, width, height) ==
  LET s1 == RngNext(st.rng)
      px == col + randint(s1, -2, epic_matrix_char_size + 2)
      s2 == RngNext(s1)
      py == y + randint(s2, -2, 18)
      image == Draw(st.image, DrawOp("point", px, py, px, py, color, color, 1, 1))
  IN IF st.i >= epic_matrix_pixels THEN st
     ELSE epic_matrix_pixel_loop_unchecked([rng |-> s2, image |-> image, i |-> st.i + 1],
                                           col, y, color, width, height)

RECURSIVE epic_matrix_pixel_loop(_, _, _, _, _, _)
epic_matrix_pixel_loop(st, col, y, color, width, height) ==
  LET s1 == RngNext(st.rng)
      px == col + randint(s1, -2, epic_matrix_char_size + 2)
      s2 == RngNext(s1)
      py == y + randint(s2, -2, 18)
      image == IF 0 <= px /\ px < width /\ 0 <= py /\ py < height
                 THEN Draw(st.image, DrawOp("point", px, py, px, py, color, color, 1, 1))
                 ELSE st.image
  IN IF st.i >= epic_matrix_pixels THEN st
     ELSE epic_matrix_pixel_loop([rng |-> s2, image |-> image, i |-> st.i + 1],
                                 col, y, color, width, height)

\* iteration i = st.i of
\* "for i, y in enumerate(range(start_y, start_y + col_length, 20))"
epic_matrix_char(st, start_y, col, col_length, width, height, is_dark) ==
  LET i == st.i
      y == start_y + 20 * i
      s1 == RngNext(st.rng)  \* char = random.choice(matrix_chars)
      \* min(3, int(min(1.0, (i + 1) / (col_length // 20)) * 4))
      color_index == Min(3, (4 * (i + 1)) \div (col_length \div 20))
      color == epic_matrix_text_colors(is_dark)[color_index + 1]
      image == Draw(st.image,
                    DrawOp("rect", col + 2, y, col + epic_matrix_char_size, y + 16,
                           color, color, 1, 1))
      s2 == RngNext(s1)      \* random.random() < 0.3
  IN IF ~(0 <= y /\ y < height) THEN [st EXCEPT !.i = i + 1]
     ELSE IF random1000(s2) < 300
       THEN LoopEnd(epic_matrix_pixel_loop(LoopStart(s2, image), col, y, color,
                                           width, height),
                    st)
       ELSE [rng |-> s2, image |-> image, i |-> i + 1]

RECURSIVE epic_matrix_char_loop(_, _, _, _, _, _, _)
epic_matrix_char_loop(st, start_y, col, col_length, width, height, is_dark) ==
  IF st.i >= RangeLen(start_y, start_y + col_length, 20) THEN st
  ELSE epic_matrix_char_loop(
         epic_matrix_char(st, start_y, col, col_length, width, height, is_dark),
         start_y, col, col_length, width, height, is_dark)

\* iteration st.i of "for col in range(0, width, col_width)"
epic_matrix_column(st, width, height, is_dark) ==
  LET col == epic_matrix_col_width * st.i
      s1 == RngNext(st.rng)
      col_length == randint(s1, height \div 3, height)
      s2 == RngNext(s1)
      start_y == randint(s2, (-height) \div 2, 0)
  IN LoopEnd(epic_matrix_char_loop(LoopStart(s2, st.image), start_y, col, col_length,
                                   width, height, is_dark),
             st)

RECURSIVE epic_matrix_column_loop(_, _, _, _)
epic_matrix_column_loop(st, width, height, is_dark) ==
  IF st.i >= RangeLen(0, width, epic_matrix_col_width) THEN st
  ELSE epic_matrix_column_loop(epic_matrix_column(st, width, height, is_dark),
                               width, height, is_dark)

epic_create_matrix_background(rng, width, height, is_dark) ==
  epic_matrix_column_loop(LoopStart(rng, NewImage(width, height, epic_matrix_bg(is_dark))),
                          width, height, is_dark)

---------------------------------------------------------------------------
\* generate_unique_backgrounds.py: create_matrix_background
unique_matrix_bg(is_dark) == IF is_dark THEN <<0, 0, 0>> ELSE <<240, 240, 240>>
unique_matrix_col_width == 20

\* iteration i = st.i of "for y in range(start_y, start_y + col_height, 20)"
unique_matrix_char(st, start_y, col, col_height, height, is_dark) ==
  LET y == start_y + 20 * st.i
      s1 == RngNext(st.rng)  \* char = random.choice(chars)
      \* min(255, max(50, int(255 * (y - start_y) / col_height)))
      alpha == Min(255, Max(50, (255 * (y - start_y)) \div col_height))
      color == IF is_dark THEN <<0, alpha, 0>> ELSE <<0, Max(100, 255 - alpha), 0>>
  IN IF ~(0 <= y /\ y < height) THEN [st EXCEPT !.i = @ + 1]
     ELSE [rng |-> s1,
           image |-> Draw(st.image,
                          DrawOp("rect", col, y, col + 15, y + 15, color, color, 1, 1)),
           i |-> st.i + 1]

RECURSIVE unique_matrix_char_loop(_, _, _, _, _, _)
unique_matrix_char_loop(st, start_y, col, col_height, height, is_dark) ==
  IF st.i >= RangeLen(start_y, start_y + col_height, 20) THEN st
  ELSE unique_matrix_char_loop(
         unique_matrix_char(st, start_y, col, col_height, height, is_dark),
         start_y, col, col_height, height, is_dark)

\* iteration st.i of "for col in range(0, width, 20)"
unique_matrix_column(st, width, height, is_dark) ==
  LET col == unique_matrix_col_width * st.i
      s1 == RngNext(st.rng)
      col_height == randint(s1, height \div 4, height)
      s2 == RngNext(s1)
      start_y == randint(s2, (-height) \div 2, height \div 4)
  IN LoopEnd(unique_matrix_char_loop(LoopStart(s2, st.image), start_y, col, col_height,
                                     height, is_dark),
             st)

RECURSIVE unique_matrix_column_loop(_, _, _, _)
unique_matrix_column_loop(st, width, height, is_dark) ==
  IF st.i >= RangeLen(0, width, unique_matrix_col_width) THEN st
  ELSE unique_matrix_column_loop(unique_matrix_column(st, width, height, is_dark),
                                 width, height, is_dark)

unique_create_matrix_background(rng, width, height, is_dark) ==
  unique_matrix_column_loop(
    LoopStart(rng, NewImage(width, height, unique_matrix_bg(is_dark))),
    width, height, is_dark)

---------------------------------------------------------------------------
\* generate_unique_backgrounds.py: create_dracula_background
unique_dracula_bg(is_dark) == IF is_dark THEN <<40, 42, 54>> ELSE <<248, 248, 242>>
unique_dracula_accents == << <<255, 121, 198>>, <<189, 147, 249>>, <<139, 233, 253>> >>
unique_dracula_count == 15

\* one iteration of "for _ in range(15)"
unique_dracula_shape(st, width, height, is_dark) ==
  LET s1 == RngNext(st.rng)
      x == randint(s1, 0, width)
      s2 == RngNext(s1)
      y == randint(s2, 0, height)
      s3 == RngNext(s2)
      size == randint(s3, 20, 80)
      s4 == RngNext(s3)
      color == choice(s4, unique_dracula_accents)
      s5 == RngNext(s4)
      alpha == randint(s5, 20, 60)
      final_color == Blend(unique_dracula_bg(is_dark), color, alpha, 255)
      s6 == RngNext(s5)
      shape_type == choice(s6, <<"circle", "rect", "triangle">>)
  IN [rng |-> s6,
      image |-> Draw(st.image,
                     CentredOp(shape_type, x, y, size, final_color, color, alpha, 255)),
      i |-> st.i + 1]

RECURSIVE unique_dracula_loop(_, _, _, _)
unique_dracula_loop(st, width, height, is_dark) ==
  IF st.i >= unique_dracula_count THEN st
  ELSE unique_dracula_loop(unique_dracula_shape(st, width, height, is_dark),
                           width, height, is_dark)

unique_create_dracula_background(rng, width, height, is_dark) ==
  unique_dracula_loop(
    LoopStart(rng, NewImage(width, height, unique_dracula_bg(is_dark))),
    width, height, is_dark)

---------------------------------------------------------------------------
\* generate_unique_backgrounds.py: create_hollow_knight_background
unique_hollow_bg(is_dark) == IF is_dark THEN <<8, 8, 12>> ELSE <<240, 240, 245>>
unique_hollow_colors(is_dark) ==
  IF is_dark
    THEN << <<64, 64, 96>>, <<96, 96, 128>>, <<128, 128, 160>> >>
    ELSE << <<180, 180, 200>>, <<160, 160, 180>>, <<140, 140, 160>> >>
unique_hollow_wisps == 25
unique_hollow_circles == 3

\* "for i in range(3)" of one wisp (i = st.i)
RECURSIVE unique_hollow_circle_loop(_, _, _, _, _, _, _)
unique_hollow_circle_loop(st, x, y, color, size, alpha, is_dark) ==
  LET s1 == RngNext(st.rng)
      offset_x == randint(s1, (-size) \div 4, size \div 4)
      s2 == RngNext(s1)
      offset_y == randint(s2, (-size) \div 4, size \div 4)
      circle_size == size - st.i * 10
      final_color == Blend(unique_hollow_bg(is_dark), color, alpha, 255)
      drawn == [rng |-> s2,
                image |-> Draw(st.image,
                   CentredOp("circle", x + offset_x, y + offset_y, circle_size,
                             final_color, color, alpha, 255)),
                i |-> st.i + 1]
  IN IF st.i >= unique_hollow_circles THEN st
     ELSE unique_hollow_circle_loop(drawn, x, y, color, size, alpha, is_dark)

\* one iteration of "for _ in range(25)"
unique_hollow_wisp(st, width, height, is_dark) ==
  LET s1 == RngNext(st.rng)
      x == randint(s1, 0, width)
      s2 == RngNext(s1)
      y == randint(s2, 0, height)
      s3 == RngNext(s2)
      color == choice(s3, unique_hollow_colors(is_dark))
      s4 == RngNext(s3)
      size == randint(s4, 20, 60)
      s5 == RngNext(s4)
      alpha == randint(s5, 20, 50)
  IN LoopEnd(unique_hollow_circle_loop(LoopStart(s5, st.image), x, y, color, size,
                                       alpha, is_dark),
             st)

RECURSIVE unique_hollow_loop(_, _, _, _)
unique_hollow_loop(st, width, height, is_dark) ==
  IF st.i >= unique_hollow_wisps THEN st
  ELSE unique_hollow_loop(unique_hollow_wisp(st, width, height, is_dark),
                          width, height, is_dark)

unique_create_hollow_knight_background(rng, width, height, is_dark) ==
  unique_hollow_loop(
    LoopStart(rng, NewImage(width, height, unique_hollow_bg(is_dark))),
    width, height, is_dark)

(***************************************************************************)
(* The colour-configuration document of the gradient driver.               *)
(* data['themes'] is an ordered mapping from theme names to entries.  An   *)
(* entry is either a mapping with the optional keys 'dark' and 'light', or *)
(* some other JSON value (a list, a string, a number).  The value under a  *)
(* mode key is absent, a list of colour strings, an object (with or        *)
(* without a 'colors' key, with or without other keys) or a scalar.        *)
(***************************************************************************)
ModeData(shape, has_colors, other_keys, colors) ==
  [shape |-> shape, has_colors |-> has_colors, other_keys |-> other_keys,
   colors |-> colors]
Absent == ModeData("absent", FALSE, FALSE, <<>>)
DirectList(colors) == ModeData("list", FALSE, FALSE, colors)
ColorsObject(colors) == ModeData("object", TRUE, FALSE, colors)
OtherObject == ModeData("object", FALSE, TRUE, <<>>)
Scalar == ModeData("scalar", FALSE, FALSE, <<>>)

Mapping(dark, light) == [mapping |-> TRUE, dark |-> dark, light |-> light]
NotMapping == [mapping |-> FALSE, dark |-> Absent, light |-> Absent]

\* colour lists
Black == <<"#", "0", "0", "0", "0", "0", "0">>
White == <<"#", "f", "f", "f", "f", "f", "f">>
Navy == <<"1", "0", "2", "0", "8", "0">>
Teal == <<"#", "4", "0", "A", "0", "a", "0">>
NotHex == <<"#", "z", "z", "0", "0", "0", "0">>
ThreeDigits == <<"#", "f", "f", "f">>
SevenDigits == <<"#", "f", "f", "0", "0", "0", "0", "1">>
FiveDigits == <<"#", "f", "f", "0", "0", "0">>

ColorLists ==
  [one |-> <<Teal>>,
   two |-> <<Black, White>>,
   three |-> <<Navy, Teal, White>>,
   four_bad_last |-> <<Black, Navy, White, NotHex>>,
   not_hex |-> <<Black, NotHex>>,
   too_short |-> <<ThreeDigits, White>>,
   too_long |-> <<SevenDigits, Black>>,
   five_digits |-> <<Navy, White, FiveDigits>>]

\* the entries a document is made of
ThemeEntries ==
  { Mapping(DirectList(ColorLists.two), ColorsObject(ColorLists.three)),
    Mapping(ColorsObject(ColorLists.two), DirectList(ColorLists.one)),
    Mapping(DirectList(ColorLists.not_hex), DirectList(ColorLists.two)),
    Mapping(ColorsObject(ColorLists.three), DirectList(ColorLists.too_short)),
    Mapping(DirectList(ColorLists.too_long), Absent),
    Mapping(ColorsObject(ColorLists.five_digits), DirectList(ColorLists.four_bad_last)),
    Mapping(DirectList(<<>>), DirectList(ColorLists.two)),
    Mapping(ColorsObject(ColorLists.three), ColorsObject(<<>>)),
    Mapping(OtherObject, Scalar),
    NotMapping }

\* the names of the themes of a document, in document order
ThemeNames == <<"alpha", "beta", "gamma", "delta">>

RECURSIVE Documents(_)
Documents(n) ==
  IF n = 0 THEN {<<>>}
  ELSE Documents(n - 1) \cup
       { Append(d, [name |-> ThemeNames[Len(d) + 1], entry |-> e]) :
           d \in {d \in Documents(n - 1) : Len(d) = n - 1}, e \in ThemeEntries }

(***************************************************************************)
(* What may go wrong outside the data: a render call or a save call that   *)
(* raises (out of memory, unwritable path).  A fault point is the position *)
(* of the theme, the mode and the call.                                    *)
(***************************************************************************)
Modes == {"dark", "light"}
GradientCalls == {"radial_render", "radial_save", "linear_render", "linear_save"}
ThemeCalls == {"render", "save"}

FaultPoints(n, calls) == (1..n) \X Modes \X calls

RECURSIVE FaultSets(_, _)
FaultSets(k, points) ==
  IF k = 0 THEN {{}}
  ELSE FaultSets(k - 1, points) \cup
       { F \cup {p} : F \in FaultSets(k - 1, points), p \in points }

(***************************************************************************)
(* The state of one run.                                                   *)
(*   driver           which script the process runs                        *)
(*   enhanced_exists, basic_exists                                         *)
(*                    whether each colour-configuration file exists        *)
(*   themes           data['themes'] of the file the gradient driver reads *)
(*   faults           the calls that raise in this run                     *)
(*   pc, idx          the position of the process, the theme of the loop   *)
(*   dir_exists       whether assets/backgrounds exists                    *)
(*   files            the PNG files written, path |-> image; a path is     *)
(*                    <<theme, mode, variant>>                             *)
(*   html             the preview page: written or not, the images it      *)
(*                    references                                           *)
(*   total_generated  the driver's counter                                 *)
(*   log              what was printed                                     *)
(*   rng              the state of the global generator                    *)
(*   rendered         the render calls that returned an image, in order    *)
(*   rng2, files2     the generator and the files of a second run of the   *)
(*                    same driver on the same inputs, which differs from   *)
(*                    the first in the state its generator starts in       *)
(*   call             the call of one function on its own (the function    *)
(*                    specifications below): the function, its arguments   *)
(*                    and, once it returned, its value; no call is made    *)
(*                    on its own in a run of a driver                      *)
(***************************************************************************)
VARIABLES driver, enhanced_exists, basic_exists, themes, faults, pc, idx,
          dir_exists, files, html, total_generated, log, rng, rendered,
          rng2, files2, call

vars == <<driver, enhanced_exists, basic_exists, themes, faults, pc, idx,
          dir_exists, files, html, total_generated, log, rng, rendered,
          rng2, files2, call>>

\* the inputs of a run, which no step changes
inputs == <<driver, enhanced_exists, basic_exists, themes, faults, call>>

\* no function is called on its own
NoCall == [fn |-> "", args |-> <<>>, returned |-> FALSE, value |-> <<>>]

\* width, height = 390, 844
canvas_width == 390
canvas_height == 844
\* random.seed(42)
Seed == 42

Message(msg, theme, mode, total) ==
  [msg |-> msg, theme |-> theme, mode |-> mode, total |-> total]

NoFiles == <<>>
WriteFile(fs, path, image) == (path :> image) @@ fs
NoPage == [written |-> FALSE, images |-> <<>>]

(***************************************************************************)
(* generate_png_backgrounds.py                                             *)
(***************************************************************************)
\* the images: a gradient is determined by its kind, its size and the
\* palette its pixels are interpolated from
create_radial_gradient(width, height, colors) ==
  [kind |-> "radial", width |-> width, height |-> height, colors |-> colors]
create_linear_gradient(width, height, colors) ==
  [kind |-> "linear", width |-> width, height |-> height, colors |-> colors]

\* bool(dark_data)
Truthy(data) ==
  CASE data.shape = "absent" -> FALSE
    [] data.shape = "list" -> data.colors # <<>>
    [] data.shape = "object" -> data.has_colors \/ data.other_keys
    [] data.shape = "scalar" -> TRUE

\* a resolver that knows the direct list only
resolve_colors_list_only(data) ==
  IF ~Truthy(data) THEN <<>>
  ELSE IF data.shape = "list" THEN data.colors
  ELSE <<>>

\* the colour list of one mode: [] when the data is falsy or of neither shape
resolve_colors(data) ==
  IF ~Truthy(data) THEN <<>>
  ELSE IF data.shape = "object" /\ data.has_colors THEN data.colors
  ELSE IF data.shape = "list" THEN data.colors
  ELSE <<>>

\* colors[:3]
FirstThree(colors) == SubSeq(colors, 1, Min(3, Len(colors)))

\* [hex_to_rgb(color) for color in colors[:3]]: the list, or a ValueError
HexList(first) == [k \in 1..Len(first) |-> hex_to_rgb(first[k])]
ListResult(parsed) ==
  [ok |-> \A k \in 1..Len(parsed) : parsed[k].ok,
   rgb_colors |-> [k \in 1..Len(parsed) |-> parsed[k].rgb]]
rgb_of(colors) == ListResult(HexList(FirstThree(colors)))

\* the files, the counter, the log and the render calls of the state
Progress ==
  [files |-> files, total_generated |-> total_generated, log |-> log,
   rendered |-> rendered]

\* a path without the variant: {theme}_{mode}.png for both gradients
gradient_path_no_variant(theme_name, mode, kind) == <<theme_name, mode, "">>
gradient_path(theme_name, mode, kind) == <<theme_name, mode, kind>>

\* what the steps of a try block do to the progress st
Failed(st, theme_name, mode) ==
  [st EXCEPT !.log = Append(@, Message("failed", theme_name, mode, 0))]
Rendered(st, path) == [st EXCEPT !.rendered = Append(@, path)]
Saved(st, path, image) == [st EXCEPT !.files = WriteFile(@, path, image)]
\* a success that is announced and not counted
GeneratedUncounted(st, theme_name, mode, n) ==
  [st EXCEPT !.log = Append(@, Message("generated", theme_name, mode, 0))]
Generated(st, theme_name, mode, n) ==
  [st EXCEPT !.log = Append(@, Message("generated", theme_name, mode, 0)),
             !.total_generated = @ + n]

\* The try block of one mode of theme i, statement by statement; each
\* statement may raise, which leaves the block for the handler.
\* linear_image.save(linear_path); print; total_generated += 2
try_linear_save(st, i, theme_name, mode, rgb_colors) ==
  IF <<i, mode, "linear_save">> \in faults THEN Failed(st, theme_name, mode)
  ELSE Generated(Saved(st, gradient_path(theme_name, mode, "linear"),
                       create_linear_gradient(canvas_width, canvas_height, rgb_colors)),
                 theme_name, mode, 2)

\* linear_image = create_linear_gradient(width, height, rgb_colors)
try_linear(st, i, theme_name, mode, rgb_colors) ==
  IF <<i, mode, "linear_render">> \in faults THEN Failed(st, theme_name, mode)
  ELSE try_linear_save(Rendered(st, gradient_path(theme_name, mode, "linear")),
                       i, theme_name, mode, rgb_colors)

\* radial_image.save(radial_path)
try_radial_save(st, i, theme_name, mode, rgb_colors) ==
  IF <<i, mode, "radial_save">> \in faults THEN Failed(st, theme_name, mode)
  ELSE try_linear(Saved(st, gradient_path(theme_name, mode, "radial"),
                        create_radial_gradient(canvas_width, canvas_height, rgb_colors)),
                  i, theme_name, mode, rgb_colors)

\* radial_image = create_radial_gradient(width, height, rgb_colors)
try_radial(st, i, theme_name, mode, rgb_colors) ==
  IF <<i, mode, "radial_render">> \in faults THEN Failed(st, theme_name, mode)
  ELSE try_radial_save(Rendered(st, gradient_path(theme_name, mode, "radial")),
                       i, theme_name, mode, rgb_colors)

\* rgb_colors = [hex_to_rgb(color) for color in dark_colors[:3]]
try_colors(st, i, theme_name, mode, rgb) ==
  IF ~rgb.ok THEN Failed(st, theme_name, mode)
  ELSE try_radial(st, i, theme_name, mode, rgb.rgb_colors)

\* a driver that reports an empty colour list as a failure
generate_colors_or_fail(st, i, theme_name, mode, colors) ==
  IF colors = <<>> THEN Failed(st, theme_name, mode)
  ELSE try_colors(st, i, theme_name, mode, rgb_of(colors))

\* "if dark_colors:" and the try block
generate_colors(st, i, theme_name, mode, colors) ==
  IF colors = <<>> THEN st
  ELSE try_colors(st, i, theme_name, mode, rgb_of(colors))

\* one mode of theme i: resolve the colour list and, when it is not empty,
\* run the try block
generate_variant(st, i, theme_name, mode, data) ==
  generate_colors(st, i, theme_name, mode, resolve_colors(data))

\* the progress of a gradient step becomes the state; the second run reads
\* the same document and meets the same faults
SetProgress(st) ==
  /\ files' = st.files
  /\ files2' = st.files
  /\ total_generated' = st.total_generated
  /\ log' = st.log
  /\ rendered' = st.rendered

\* generate_png_preview: the page references, theme by theme, the variants
\* whose file exists
RECURSIVE PreviewImages(_, _)
PreviewImages(names, fs) ==
  IF names = <<>> THEN <<>>
  ELSE SelectSeq(<< <<Head(names), "dark", "radial">>, <<Head(names), "dark", "linear">>,
                    <<Head(names), "light", "radial">>, <<Head(names), "light", "linear">> >>,
                 LAMBDA path : path \in DOMAIN fs)
       \o PreviewImages(Tail(names), fs)

generate_png_preview(fs) ==
  [written |-> TRUE,
   images |-> PreviewImages([k \in 1..Len(themes) |-> themes[k].name], fs)]

\* __main__ of generate_png_backgrounds.py calls the driver
GradientMain ==
  /\ driver = "gradient" /\ pc = "main"
  /\ pc' = "start"
  /\ UNCHANGED <<inputs, idx, dir_exists, files, html, total_generated, log, rng,
                 rendered, rng2, files2>>

\* a driver that creates the output directory before it looks for the
\* configuration
GradientStartMakedirsFirst ==
  /\ driver = "gradient" /\ pc = "start"
  /\ dir_exists' = TRUE
  /\ IF ~enhanced_exists /\ ~basic_exists
       THEN /\ log' = Append(log, Message("no_theme_data", "", "", 0))
            /\ pc' = "no_config"
            /\ UNCHANGED <<idx, total_generated>>
       ELSE /\ log' = Append(log, Message(IF enhanced_exists THEN "using_enhanced"
                                          ELSE "using_basic", "", "", 0))
            /\ total_generated' = 0
            /\ idx' = 1
            /\ pc' = "dark"
  /\ UNCHANGED <<inputs, files, html, rng, rendered, rng2, files2>>

\* generate_theme_backgrounds up to the loop: find the configuration or
\* return; read it; create the output directory
GradientStart ==
  /\ driver = "gradient" /\ pc = "start"
  /\ IF ~enhanced_exists /\ ~basic_exists
       THEN /\ log' = Append(log, Message("no_theme_data", "", "", 0))
            /\ pc' = "no_config"
            /\ UNCHANGED <<idx, dir_exists, total_generated>>
       ELSE /\ log' = Append(log, Message(IF enhanced_exists THEN "using_enhanced"
                                          ELSE "using_basic", "", "", 0))
            /\ dir_exists' = TRUE
            /\ total_generated' = 0
            /\ idx' = 1
            /\ pc' = "dark"
  /\ UNCHANGED <<inputs, files, html, rng, rendered, rng2, files2>>

\* the dark variant of theme idx; theme_colors.get raises on an entry that
\* is not a mapping, and the exception ends the run in __main__'s handler
GradientDark ==
  /\ driver = "gradient" /\ pc = "dark" /\ idx <= Len(themes)
  /\ IF ~themes[idx].entry.mapping
       THEN /\ log' = Append(log, Message("error", "", "", 0))
            /\ pc' = "crashed"
            /\ UNCHANGED <<files, total_generated, rendered, files2>>
       ELSE /\ SetProgress(generate_variant(Progress, idx, themes[idx].name, "dark",
                                            themes[idx].entry.dark))
            /\ pc' = "light"
  /\ UNCHANGED <<inputs, idx, dir_exists, html, rng, rng2>>

\* the light variant of theme idx, then the next theme
GradientLight ==
  /\ driver = "gradient" /\ pc = "light"
  /\ SetProgress(generate_variant(Progress, idx, themes[idx].name, "light",
                                  themes[idx].entry.light))
  /\ idx' = idx + 1
  /\ pc' = "dark"
  /\ UNCHANGED <<inputs, dir_exists, html, rng, rng2>>

\* after the loop: the summary and the preview page
GradientFinish ==
  /\ driver = "gradient" /\ pc = "dark" /\ idx > Len(themes)
  /\ log' = Append(log, Message("summary", "", "", total_generated))
  /\ html' = generate_png_preview(files)
  /\ pc' = "done"
  /\ UNCHANGED <<inputs, idx, dir_exists, files, total_generated, rng, rendered,
                 rng2, files2>>

(***************************************************************************)
(* generate_epic_backgrounds.py                                            *)
(***************************************************************************)
\* the keys of epic_generators, in order (the themes whose generator is modelled)
epic_generator_names == <<"matrix", "dracula_ide", "hollow_knight_shadow">>

\* epic_generators[theme_name](width, height, is_dark), run from generator state r
epic_generators(theme_name, r, width, height, is_dark) ==
  CASE theme_name = "matrix" -> epic_create_matrix_background(r, width, height, is_dark)
    [] theme_name = "dracula_ide" -> epic_create_dracula_background(r, width, height, is_dark)
    [] theme_name = "hollow_knight_shadow" ->
         epic_create_hollow_knight_background(r, width, height, is_dark)

epic_path(theme_name, mode) == <<theme_name, mode, "EPIC">>

\* a __main__ that calls the driver without seeding the generator
EpicMainUnseeded ==
  /\ driver = "epic" /\ pc = "main"
  /\ pc' = "start"
  /\ UNCHANGED <<inputs, idx, dir_exists, files, html, total_generated, log, rng,
                 rendered, rng2, files2>>

\* __main__: seed the global generator, call the driver
EpicMain ==
  /\ driver = "epic" /\ pc = "main"
  /\ rng' = random_seed(Seed)
  /\ rng2' = random_seed(Seed)
  /\ pc' = "start"
  /\ UNCHANGED <<inputs, idx, dir_exists, files, html, total_generated, log,
                 rendered, files2>>

\* generate_epic_backgrounds up to the loop
EpicStart ==
  /\ driver = "epic" /\ pc = "start"
  /\ dir_exists' = TRUE
  /\ total_generated' = 0
  /\ idx' = 1
  /\ pc' = "dark"
  /\ UNCHANGED <<inputs, files, html, log, rng, rendered, rng2, files2>>

\* a driver without the handler: the exception reaches __main__
EpicUncaught(theme_name) ==
  /\ log' = Append(log, Message("error", "", "", 0))
  /\ pc' = "crashed"
  /\ UNCHANGED idx

\* except Exception as e: the failure is printed and the loop goes on with
\* the next theme
EpicExcept(theme_name) ==
  /\ log' = Append(log, Message("failed", theme_name, "", 0))
  /\ idx' = idx + 1
  /\ pc' = "dark"

\* the try block of theme idx up to the dark variant's counter; an
\* exception leaves the block for the handler and the next theme
EpicDark ==
  /\ driver = "epic" /\ pc = "dark" /\ idx <= Len(epic_generator_names)
  /\ LET theme_name == epic_generator_names[idx]
         dark == epic_generators(theme_name, rng, canvas_width, canvas_height, TRUE)
         dark2 == epic_generators(theme_name, rng2, canvas_width, canvas_height, TRUE)
         dark_path == epic_path(theme_name, "dark")
     IN IF <<idx, "dark", "render">> \in faults
          THEN /\ EpicExcept(theme_name)
               /\ UNCHANGED <<files, total_generated, rng, rendered, rng2, files2>>
          ELSE /\ rng' = dark.rng
               /\ rng2' = dark2.rng
               /\ rendered' = Append(rendered, dark_path)
               /\ IF <<idx, "dark", "save">> \in faults
                    THEN /\ EpicExcept(theme_name)
                         /\ UNCHANGED <<files, total_generated, files2>>
                    ELSE /\ files' = WriteFile(files, dark_path, dark.image)
                         /\ files2' = WriteFile(files2, dark_path, dark2.image)
                         /\ log' = Append(log, Message("generated", theme_name, "dark", 0))
                         /\ total_generated' = total_generated + 1
                         /\ pc' = "light"
                         /\ UNCHANGED idx
  /\ UNCHANGED <<inputs, dir_exists, html>>

\* the rest of the try block of theme idx: the light variant
EpicLight ==
  /\ driver = "epic" /\ pc = "light"
  /\ LET theme_name == epic_generator_names[idx]
         light == epic_generators(theme_name, rng, canvas_width, canvas_height, FALSE)
         light2 == epic_generators(theme_name, rng2, canvas_width, canvas_height, FALSE)
         light_path == epic_path(theme_name, "light")
     IN IF <<idx, "light", "render">> \in faults
          THEN /\ EpicExcept(theme_name)
               /\ UNCHANGED <<files, total_generated, rng, rendered, rng2, files2>>
          ELSE /\ rng' = light.rng
               /\ rng2' = light2.rng
               /\ rendered' = Append(rendered, light_path)
               /\ IF <<idx, "light", "save">> \in faults
                    THEN /\ EpicExcept(theme_name)
                         /\ UNCHANGED <<files, total_generated, files2>>
                    ELSE /\ files' = WriteFile(files, light_path, light.image)
                         /\ files2' = WriteFile(files2, light_path, light2.image)
                         /\ log' = Append(log, Message("generated", theme_name, "light", 0))
                         /\ total_generated' = total_generated + 1
                         /\ idx' = idx + 1
                         /\ pc' = "dark"
  /\ UNCHANGED <<inputs, dir_exists, html>>

\* after the loop: the summary
EpicFinish ==
  /\ driver = "epic" /\ pc = "dark" /\ idx > Len(epic_generator_names)
  /\ log' = Append(log, Message("summary", "", "", total_generated))
  /\ pc' = "done"
  /\ UNCHANGED <<inputs, idx, dir_exists, files, html, total_generated, rng, rendered,
                 rng2, files2>>
(***************************************************************************)
(* generate_unique_backgrounds.py                                            *)
(***************************************************************************)
\* the keys of theme_generators, in order (the themes whose generator is modelled)
theme_generator_names == <<"matrix", "dracula_ide", "hollow_knight_shadow">>

\* theme_generators[theme_name](width, height, is_dark), run from generator state r
theme_generators(theme_name, r, width, height, is_dark) ==
  CASE theme_name = "matrix" -> unique_create_matrix_background(r, width, height, is_dark)
    [] theme_name = "dracula_ide" -> unique_create_dracula_background(r, width, height, is_dark)
    [] theme_name = "hollow_knight_shadow" ->
         unique_create_hollow_knight_background(r, width, height, is_dark)

unique_path(theme_name, mode) == <<theme_name, mode, "">>

\* a __main__ that calls the driver without seeding the generator
UniqueMainUnseeded ==
  /\ driver = "unique" /\ pc = "main"
  /\ pc' = "start"
  /\ UNCHANGED <<inputs, idx, dir_exists, files, html, total_generated, log, rng,
                 rendered, rng2, files2>>

\* __main__: seed the global generator, call the driver
UniqueMain ==
  /\ driver = "unique" /\ pc = "main"
  /\ rng' = random_seed(Seed)
  /\ rng2' = random_seed(Seed)
  /\ pc' = "start"
  /\ UNCHANGED <<inputs, idx, dir_exists, files, html, total_generated, log,
                 rendered, files2>>

\* generate_unique_backgrounds up to the loop
UniqueStart ==
  /\ driver = "unique" /\ pc = "start"
  /\ dir_exists' = TRUE
  /\ total_generated' = 0
  /\ idx' = 1
  /\ pc' = "dark"
  /\ UNCHANGED <<inputs, files, html, log, rng, rendered, rng2, files2>>

\* except Exception as e: the failure is printed and the loop goes on with
\* the next theme
UniqueExcept(theme_name) ==
  /\ log' = Append(log, Message("failed", theme_name, "", 0))
  /\ idx' = idx + 1
  /\ pc' = "dark"

\* the try block of theme idx up to the dark variant's counter; an
\* exception leaves the block for the handler and the next theme
UniqueDark ==
  /\ driver = "unique" /\ pc = "dark" /\ idx <= Len(theme_generator_names)
  /\ LET theme_name == theme_generator_names[idx]
         dark == theme_generators(theme_name, rng, canvas_width, canvas_height, TRUE)
         dark2 == theme_generators(theme_name, rng2, canvas_width, canvas_height, TRUE)
         dark_path == unique_path(theme_name, "dark")
     IN IF <<idx, "dark", "render">> \in faults
          THEN /\ UniqueExcept(theme_name)
               /\ UNCHANGED <<files, total_generated, rng, rendered, rng2, files2>>
          ELSE /\ rng' = dark.rng
               /\ rng2' = dark2.rng
               /\ rendered' = Append(rendered, dark_path)
               /\ IF <<idx, "dark", "save">> \in faults
                    THEN /\ UniqueExcept(theme_name)
                         /\ UNCHANGED <<files, total_generated, files2>>
                    ELSE /\ files' = WriteFile(files, dark_path, dark.image)
                         /\ files2' = WriteFile(files2, dark_path, dark2.image)
                         /\ log' = Append(log, Message("generated", theme_name, "dark", 0))
                         /\ total_generated' = total_generated + 1
                         /\ pc' = "light"
                         /\ UNCHANGED idx
  /\ UNCHANGED <<inputs, dir_exists, html>>

\* the rest of the try block of theme idx: the light variant
UniqueLight ==
  /\ driver = "unique" /\ pc = "light"
  /\ LET theme_name == theme_generator_names[idx]
         light == theme_generators(theme_name, rng, canvas_width, canvas_height, FALSE)
         light2 == theme_generators(theme_name, rng2, canvas_width, canvas_height, FALSE)
         light_path == unique_path(theme_name, "light")
     IN IF <<idx, "light", "render">> \in faults
          THEN /\ UniqueExcept(theme_name)
               /\ UNCHANGED <<files, total_generated, rng, rendered, rng2, files2>>
          ELSE /\ rng' = light.rng
               /\ rng2' = light2.rng
               /\ rendered' = Append(rendered, light_path)
               /\ IF <<idx, "light", "save">> \in faults
                    THEN /\ UniqueExcept(theme_name)
                         /\ UNCHANGED <<files, total_generated, files2>>
                    ELSE /\ files' = WriteFile(files, light_path, light.image)
                         /\ files2' = WriteFile(files2, light_path, light2.image)
                         /\ log' = Append(log, Message("generated", theme_name, "light", 0))
                         /\ total_generated' = total_generated + 1
                         /\ idx' = idx + 1
                         /\ pc' = "dark"
  /\ UNCHANGED <<inputs, dir_exists, html>>

\* generate_unique_preview: the page references the dark and the light
\* image of every theme
RECURSIVE UniquePreviewImages(_)
UniquePreviewImages(names) ==
  IF names = <<>> THEN <<>>
  ELSE <<unique_path(Head(names), "dark"), unique_path(Head(names), "light")>>
       \o UniquePreviewImages(Tail(names))

generate_unique_preview(theme_names) ==
  [written |-> TRUE, images |-> UniquePreviewImages(theme_names)]

\* after the loop: the summary and the preview page
UniqueFinish ==
  /\ driver = "unique" /\ pc = "dark" /\ idx > Len(theme_generator_names)
  /\ log' = Append(log, Message("summary", "", "", total_generated))
  /\ html' = generate_unique_preview(theme_generator_names)
  /\ pc' = "done"
  /\ UNCHANGED <<inputs, idx, dir_exists, files, total_generated, rng, rendered,
                 rng2, files2>>

(***************************************************************************)
(* The runs.  A run starts at the __main__ block of one driver.  The       *)
(* gradient driver finds both, one or none of the configuration files; the *)
(* output directory holds the configuration files, so it exists when one   *)
(* of them does.  The generators of the two runs start in any state.       *)
(***************************************************************************)
Drivers == {"gradient", "epic", "unique"}

Init ==
  /\ driver \in Drivers
  /\ enhanced_exists \in (IF driver = "gradient" THEN BOOLEAN ELSE {FALSE})
  /\ basic_exists \in (IF driver = "gradient" THEN BOOLEAN ELSE {FALSE})
  /\ themes \in (IF driver = "gradient" /\ (enhanced_exists \/ basic_exists)
                   THEN Documents(MaxThemes) ELSE {<<>>})
  /\ faults \in (CASE driver = "gradient" ->
                        FaultSets(MaxFaults, FaultPoints(Len(themes), GradientCalls))
                   [] driver = "epic" ->
                        FaultSets(MaxFaults,
                                  FaultPoints(Len(epic_generator_names), ThemeCalls))
                   [] driver = "unique" ->
                        FaultSets(MaxFaults,
                                  FaultPoints(Len(theme_generator_names), ThemeCalls)))
  /\ pc = "main"
  /\ idx = 0
  /\ dir_exists \in (IF enhanced_exists \/ basic_exists THEN {TRUE} ELSE BOOLEAN)
  /\ files = NoFiles
  /\ files2 = NoFiles
  /\ html = NoPage
  /\ total_generated = 0
  /\ log = <<>>
  /\ rendered = <<>>
  /\ rng \in (IF driver = "gradient" THEN {0} ELSE 0..MaxEntropy)
  /\ rng2 \in (IF driver = "gradient" THEN {0} ELSE 0..MaxEntropy)
  /\ call = NoCall

Next ==
  \/ GradientMain \/ GradientStart \/ GradientDark \/ GradientLight \/ GradientFinish
  \/ EpicMain \/ EpicStart \/ EpicDark \/ EpicLight \/ EpicFinish
  \/ UniqueMain \/ UniqueStart \/ UniqueDark \/ UniqueLight \/ UniqueFinish

Spec == Init /\ [][Next]_vars

Terminal == {"done", "no_config", "crashed"}

TypeOK ==
  /\ driver \in Drivers
  /\ pc \in {"main", "start", "dark", "light"} \cup Terminal
  /\ total_generated \in Nat
  /\ rng \in 0..(RngMod - 1)

(***************************************************************************)
(* The vocabulary of the properties.                                       *)
(***************************************************************************)
\* the themes the driver of the run enumerates
ThemeList ==
  CASE driver = "gradient" -> [k \in 1..Len(themes) |-> themes[k].name]
    [] driver = "epic" -> epic_generator_names
    [] driver = "unique" -> theme_generator_names

Positions == 1..Max(MaxThemes, Max(Len(epic_generator_names), Len(theme_generator_names)))

\* a call of theme i raises in this run
FaultAt(i) == \E f \in faults : f[1] = i
FaultIn(i, mode) == \E f \in faults : f[1] = i /\ f[2] = mode

\* a failure of theme i has been printed
FailureLogged(i) ==
  /\ i <= Len(ThemeList)
  /\ \E k \in 1..Len(log) : log[k].msg = "failed" /\ log[k].theme = ThemeList[i]

\* every entry of the document is a mapping of modes
AllMappings == \A k \in 1..Len(themes) : themes[k].entry.mapping

\* a mode of a gradient theme whose colour list is not empty and converts
Convertible(data) == resolve_colors(data) # <<>> /\ rgb_of(resolve_colors(data)).ok

ModeOf(entry, mode) == IF mode = "dark" THEN entry.dark ELSE entry.light

\* the files the driver writes for (theme i, mode) when nothing raises
PathsOf(i, mode) ==
  CASE i > Len(ThemeList) -> {}
    [] driver = "gradient" ->
         IF themes[i].entry.mapping /\ Convertible(ModeOf(themes[i].entry, mode))
           THEN {gradient_path(ThemeList[i], mode, "radial"),
                 gradient_path(ThemeList[i], mode, "linear")}
           ELSE {}
    [] driver = "epic" -> {epic_path(ThemeList[i], mode)}
    [] driver = "unique" -> {unique_path(ThemeList[i], mode)}

Written(paths) == paths \subseteq DOMAIN files

\* the loop has gone past theme i
Passed(i) == pc = "done" \/ (pc \in {"dark", "light"} /\ idx > i)

(***************************************************************************)
(* C1.  In every driver, when a call of theme i raises or a failure of     *)
(* theme i has been printed, the batch still runs to its end (the process  *)
(* does not leave the driver through an exception, and in the loop it is   *)
(* at a theme or at the exit of the loop), and every later theme j none of *)
(* whose calls raises is still rendered and saved: when the loop has gone  *)
(* past it, all of its files are written.  Stated for documents whose      *)
(* entries are mode mappings: an entry of another shape is the subject of  *)
(* C4.                                                                     *)
(***************************************************************************)
C1_LaterThemesStillEmitted ==
  \A i \in Positions : \A j \in Positions :
    (i < j /\ j <= Len(ThemeList) /\ (FaultAt(i) \/ FailureLogged(i)) /\ ~FaultAt(j)
       /\ AllMappings)
      => /\ pc # "crashed"
         /\ pc = "light" => idx <= Len(ThemeList)
         /\ pc = "dark" => idx <= Len(ThemeList) + 1
         /\ Passed(j) => Written(PathsOf(j, "dark")) /\ Written(PathsOf(j, "light"))

\* a run that printed a failure of a theme whose call raised, and wrote the
\* files of both modes of a later theme
C1_Witness ==
  \E i \in Positions : \E j \in Positions :
    /\ i < j /\ j <= Len(ThemeList) /\ FailureLogged(i) /\ FaultAt(i)
    /\ pc = "done"
    /\ PathsOf(j, "dark") # {} /\ Written(PathsOf(j, "dark"))
    /\ PathsOf(j, "light") # {} /\ Written(PathsOf(j, "light"))

OtherMode(mode) == IF mode = "dark" THEN "light" ELSE "dark"

(***************************************************************************)
(* C2.  In every driver a failure on one (theme, mode) aborts only that    *)
(* pair: when a call of (theme i, mode) raises and no call of the other    *)
(* mode of theme i does, the files of the other mode are written once the  *)
(* loop has gone past theme i.                                             *)
(***************************************************************************)
C2_OtherModeStillEmitted ==
  \A i \in Positions : \A mode \in Modes :
    (i <= Len(ThemeList) /\ AllMappings /\ FaultIn(i, mode)
       /\ ~FaultIn(i, OtherMode(mode)) /\ Passed(i))
      => Written(PathsOf(i, OtherMode(mode)))

(***************************************************************************)
(* C3.  In the gradient driver, a (theme, mode) pair one of whose first    *)
(* three colour strings is malformed (not exactly six hexadecimal digits   *)
(* after an optional '#') is not rendered, and neither its radial nor its  *)
(* linear file is written.                                                 *)
(***************************************************************************)
WellFormedHex(c) ==
  LET h == IF c # <<>> /\ Head(c) = "#" THEN Tail(c) ELSE c
  IN Len(h) = 6 /\ \A k \in 1..6 : h[k] \in HexDigit

Malformed(colors) ==
  \E k \in 1..Len(FirstThree(colors)) : ~WellFormedHex(FirstThree(colors)[k])

C3_MalformedPairNotRendered ==
  \A i \in Positions : \A mode \in Modes : \A kind \in {"radial", "linear"} :
    (driver = "gradient" /\ i <= Len(themes) /\ themes[i].entry.mapping
       /\ Malformed(resolve_colors(ModeOf(themes[i].entry, mode))))
      => /\ gradient_path(themes[i].name, mode, kind) \notin DOMAIN files
         /\ \A k \in 1..Len(rendered) :
              rendered[k] # gradient_path(themes[i].name, mode, kind)

(***************************************************************************)
(* C4.  Once a configuration document has been found, no error is fatal to *)
(* the gradient batch, whatever the content of a theme's entry: the run    *)
(* never ends in the handler of __main__, and when the loop has gone past  *)
(* a theme whose entry is a mapping, the files of its convertible modes    *)
(* that meet no raising call are written.                                  *)
(***************************************************************************)
C4_NoEntryIsFatal ==
  (driver = "gradient" /\ (enhanced_exists \/ basic_exists))
    => /\ pc # "crashed"
       /\ \A i \in Positions : \A mode \in Modes :
            (Passed(i) /\ i <= Len(themes) /\ ~FaultIn(i, mode))
              => Written(PathsOf(i, mode))

\* the messages of one kind printed so far
Printed(msg) == {k \in 1..Len(log) : log[k].msg = msg}

\* the numbers the summary reports
Reported == {log[k].total : k \in Printed("summary")}

\* the (theme, mode) items the driver is to produce: every mode of every
\* theme (epic, unique), every mode that has colours (gradient)
Items ==
  {it \in (1..Len(ThemeList)) \X Modes :
     driver = "gradient" =>
       /\ themes[it[1]].entry.mapping
       /\ resolve_colors(ModeOf(themes[it[1]].entry, it[2])) # <<>>}

\* the items all of whose files are written, and the others
SucceededItems ==
  {it \in Items : PathsOf(it[1], it[2]) # {} /\ Written(PathsOf(it[1], it[2]))}
FailedItems == Items \ SucceededItems

(***************************************************************************)
(* C5.  At the end of a batch in which items failed, the driver reports    *)
(* the number of items that failed as well as the number that succeeded,   *)
(* and the two sum to the number of items.                                 *)
(***************************************************************************)
C5_FailureCountReported ==
  (pc = "done" /\ FailedItems # {})
    => /\ Cardinality(FailedItems) \in Reported
       /\ \E n \in Reported : n + Cardinality(FailedItems) = Cardinality(Items)

\* the try blocks of the run that raise, and the generated-messages due:
\* the gradient driver has one block per item, which fails on a colour that
\* does not convert or on a raising call; the epic and unique drivers have
\* one block per theme, which a raising call of either mode ends
FailingBlocks ==
  IF driver = "gradient"
    THEN {it \in Items : ~Convertible(ModeOf(themes[it[1]].entry, it[2]))
                          \/ FaultIn(it[1], it[2])}
    ELSE {i \in 1..Len(ThemeList) : FaultAt(i)}

AnnouncedItems ==
  IF driver = "gradient"
    THEN Items \ FailingBlocks
    ELSE {it \in Items : ~FaultIn(it[1], "dark")
                         /\ (it[2] = "light" => ~FaultIn(it[1], "light"))}

\* total_generated += 2 (gradient), += 1 (epic, unique)
FilesPerItem == IF driver = "gradient" THEN 2 ELSE 1

(***************************************************************************)
(* C5, as the code has it.  At the end of a batch the driver reports one   *)
(* number, the count of the files it announced as generated (two for each  *)
(* gradient item whose try block completed, one for each epic or unique    *)
(* item saved); failures are printed one by one, a message for each try    *)
(* block that raised, and no count of them is reported.                    *)
(***************************************************************************)
C5_OnlyGeneratedCountReported ==
  pc = "done"
    => /\ Cardinality(Printed("summary")) = 1
       /\ Reported = {FilesPerItem * Cardinality(AnnouncedItems)}
       /\ Cardinality(Printed("generated")) = Cardinality(AnnouncedItems)
       /\ Cardinality(Printed("failed")) = Cardinality(FailingBlocks)

\* a finished batch with a failed block, an announced item and a summary
\* that does not report the number of failed items
C5_Witness ==
  /\ pc = "done"
  /\ FailingBlocks # {} /\ AnnouncedItems # {}
  /\ Cardinality(FailedItems) \notin Reported

\* a colour list given empty, as a list or under 'colors'
EmptyList(data) ==
  /\ data.colors = <<>>
  /\ data.shape = "list" \/ (data.shape = "object" /\ data.has_colors)

\* the loop has gone past (theme i, mode)
PassedMode(i, mode) == Passed(i) \/ (mode = "dark" /\ pc = "light" /\ idx = i)

\* a message about (theme i, mode) has been printed
Mentioned(i, mode, msg) ==
  \E k \in Printed(msg) : log[k].theme = ThemeList[i] /\ log[k].mode = mode

(***************************************************************************)
(* C6.  In the gradient driver a (theme, mode) whose colour list is empty  *)
(* is skipped with a reported failure for the pair, and no file is written *)
(* for it.                                                                 *)
(***************************************************************************)
C6_EmptyListReported ==
  \A i \in Positions : \A mode \in Modes :
    (driver = "gradient" /\ i <= Len(themes) /\ themes[i].entry.mapping
       /\ EmptyList(ModeOf(themes[i].entry, mode)) /\ PassedMode(i, mode))
      => /\ Mentioned(i, mode, "failed")
         /\ \A kind \in {"radial", "linear"} :
              gradient_path(themes[i].name, mode, kind) \notin DOMAIN files

(***************************************************************************)
(* C6, as the code has it.  In the gradient driver a (theme, mode) whose   *)
(* colour list is empty is skipped silently: nothing is printed about the  *)
(* pair, neither a failure nor a success, nothing is rendered or written   *)
(* for it, and the other items still emit: at the end every convertible    *)
(* item that meets no raising call has its files.                          *)
(***************************************************************************)
C6_EmptyListSkippedSilently ==
  \A i \in Positions : \A mode \in Modes :
    (driver = "gradient" /\ i <= Len(themes) /\ themes[i].entry.mapping
       /\ EmptyList(ModeOf(themes[i].entry, mode)))
      => /\ ~Mentioned(i, mode, "failed") /\ ~Mentioned(i, mode, "generated")
         /\ \A kind \in {"radial", "linear"} :
              /\ gradient_path(themes[i].name, mode, kind) \notin DOMAIN files
              /\ \A k \in 1..Len(rendered) :
                   rendered[k] # gradient_path(themes[i].name, mode, kind)
         /\ pc = "done" =>
              \A it \in Items : ~FaultIn(it[1], it[2]) => Written(PathsOf(it[1], it[2]))

\* a finished batch that went past an empty colour list and wrote the files
\* of another item
C6_Witness ==
  /\ driver = "gradient" /\ pc = "done"
  /\ \E i \in 1..Len(themes) : \E mode \in Modes :
       /\ themes[i].entry.mapping /\ EmptyList(ModeOf(themes[i].entry, mode))
       /\ ~Mentioned(i, mode, "failed")
  /\ SucceededItems # {}

\* neither configuration file exists when the gradient driver runs
ConfigMissing == driver = "gradient" /\ ~enhanced_exists /\ ~basic_exists

(***************************************************************************)
(* C7.  When neither the enhanced nor the basic configuration exists, the  *)
(* gradient driver aborts with a message and has no other effect: no step  *)
(* of the run creates the output directory, writes a PNG or writes the     *)
(* HTML preview; the run ends right after the driver's start, and all it   *)
(* has printed then is the message that no theme data was found.           *)
(***************************************************************************)
C7_MissingConfigNoEffect ==
  /\ [](ConfigMissing =>
          /\ pc \in {"main", "start", "no_config"}
          /\ files = NoFiles /\ html = NoPage
          /\ pc = "no_config" => log = <<Message("no_theme_data", "", "", 0)>>)
  /\ [][ConfigMissing =>
          /\ dir_exists' = dir_exists
          /\ files' = files
          /\ html' = html
          /\ pc = "start" => pc' = "no_config"]_vars

\* the driver has returned for want of a configuration, the output
\* directory is still missing
C7_Witness ==
  /\ ConfigMissing /\ pc = "no_config" /\ ~dir_exists
  /\ Len(log) = 1 /\ log[1].msg = "no_theme_data"

\* the generator of a theme in the driver of the run, run from state r
Generate(theme_name, r, mode) ==
  IF driver = "epic"
    THEN epic_generators(theme_name, r, canvas_width, canvas_height, mode = "dark")
    ELSE theme_generators(theme_name, r, canvas_width, canvas_height, mode = "dark")

(***************************************************************************)
(* C8.  Render invocations share no mutable state: the raster written for  *)
(* a (theme, mode) is the one its generator produces when no other render  *)
(* ran before it, that is from the generator as the process seeded it.     *)
(***************************************************************************)
C8_RasterIndependentOfEarlierRenders ==
  driver # "gradient" =>
    \A p \in DOMAIN files : files[p] = Generate(p[1], random_seed(Seed), p[2]).image

\* the state of the global generator after the first n render calls of the
\* run, replayed from the seed
RECURSIVE GeneratorAfter(_)
GeneratorAfter(n) ==
  IF n = 0 THEN random_seed(Seed)
  ELSE Generate(rendered[n][1], GeneratorAfter(n - 1), rendered[n][2]).rng

\* the palette of a gradient file
PaletteOf(i, mode) == rgb_of(resolve_colors(ModeOf(themes[i].entry, mode))).rgb_colors

(***************************************************************************)
(* C8, as the code has it.  The renders of an epic or unique batch share   *)
(* the global generator: the raster written for a (theme, mode) is the one *)
(* its generator produces from the state the earlier renders of the batch  *)
(* left the global generator in, which is the seeded state for the first   *)
(* render only.  A gradient raster depends on nothing but the palette of   *)
(* its own (theme, mode).                                                  *)
(***************************************************************************)
C8_RasterFollowsEarlierRenders ==
  /\ driver # "gradient" =>
       \A k \in 1..Len(rendered) :
         rendered[k] \in DOMAIN files =>
           files[rendered[k]]
             = Generate(rendered[k][1], GeneratorAfter(k - 1), rendered[k][2]).image
  /\ driver = "gradient" =>
       \A i \in 1..Len(themes) : \A mode \in Modes :
         /\ gradient_path(themes[i].name, mode, "radial") \in DOMAIN files =>
              files[gradient_path(themes[i].name, mode, "radial")]
                = create_radial_gradient(canvas_width, canvas_height, PaletteOf(i, mode))
         /\ gradient_path(themes[i].name, mode, "linear") \in DOMAIN files =>
              files[gradient_path(themes[i].name, mode, "linear")]
                = create_linear_gradient(canvas_width, canvas_height, PaletteOf(i, mode))

\* a batch whose second render was written and is not the raster its
\* generator produces from the seeded state
C8_Witness ==
  /\ driver # "gradient" /\ Len(rendered) >= 2
  /\ rendered[2] \in DOMAIN files
  /\ files[rendered[2]]
       # Generate(rendered[2][1], random_seed(Seed), rendered[2][2]).image

(***************************************************************************)
(* C9.  Two runs of a batch, each seeding its generator with 42, produce   *)
(* the same images whatever state their generators started in: once the    *)
(* runs are past the seeding, their generators agree and so do the files   *)
(* they have written.                                                      *)
(***************************************************************************)
C9_SeededRunsAgree == pc # "main" => (rng2 = rng /\ files2 = files)

\* two finished epic or unique runs that wrote every image
C9_Witness ==
  /\ driver # "gradient" /\ pc = "done"
  /\ Cardinality(DOMAIN files) = 2 * Len(ThemeList)
  /\ files2 = files

\* a drawing call painted pixel (px, py) among the first n calls on image
PaintedBefore(image, n, px, py) == \E m \in 1..n : Covers(image.ops[m], px, py)

\* drawing call k of image, where its centre pixel was painted before,
\* leaves there the blend of the colour the pixel had and the call's colour
BlendsAtCentre(image, k) ==
  LET op == image.ops[k]
      cx == (op.x0 + op.x1) \div 2
      cy == (op.y0 + op.y1) \div 2
  IN (/\ op.num < op.den
      /\ 0 <= cx /\ cx < image.width /\ 0 <= cy /\ cy < image.height
      /\ Covers(op, cx, cy)
      /\ PaintedBefore(image, k - 1, cx, cy))
       => PixelAfter(image, k, cx, cy)
            = Blend(PixelAfter(image, k - 1, cx, cy), op.color, op.num, op.den)

(***************************************************************************)
(* C10.  In every theme renderer each drawing operation blends with the    *)
(* existing canvas colour: a primitive of opacity a below 1 drawn over a   *)
(* pixel an earlier primitive painted leaves the pixel at                  *)
(* existing*(1-a) + primitive_colour*a, existing being the colour the      *)
(* pixel had.  Checked at the centre pixel of every primitive of every     *)
(* image written.                                                          *)
(***************************************************************************)
C10_PrimitivesBlendWithCanvas ==
  driver # "gradient" =>
    \A p \in DOMAIN files : \A k \in 1..Len(files[p].ops) : BlendsAtCentre(files[p], k)

\* drawing call op of image is a colour composited over the background
\* colour of the canvas with an opacity strictly between 0 and 1
Composited(image, op) ==
  /\ 0 < op.num /\ op.num < op.den
  /\ op.fill = Blend(image.bg, op.color, op.num, op.den)

\* drawing call op paints its palette colour as it is
RawColour(op) == op.num = op.den /\ op.fill = op.color

NoDriver ==
  /\ driver = "" /\ enhanced_exists = FALSE /\ basic_exists = FALSE
  /\ themes = <<>> /\ faults = {}
  /\ pc = "call" /\ idx = 0 /\ dir_exists = FALSE
  /\ files = NoFiles /\ files2 = NoFiles /\ html = NoPage
  /\ total_generated = 0 /\ log = <<>> /\ rendered = <<>>
  /\ rng = 0 /\ rng2 = 0

\* a call of fn with args that has not returned
Called(fn, args) == [fn |-> fn, args |-> args, returned |-> FALSE, value |-> <<>>]

\* the call of fn returns value
Returns(fn, value) ==
  /\ call.fn = fn /\ ~call.returned
  /\ call' = [call EXCEPT !.returned = TRUE, !.value = value]
  /\ UNCHANGED <<driver, enhanced_exists, basic_exists, themes, faults, pc, idx,
                 dir_exists, files, html, total_generated, log, rng, rendered,
                 rng2, files2>>

\* the call of fn has returned
Returned(fn) == call.fn = fn /\ call.returned

(***************************************************************************)
(* A theme renderer called on its own, for any canvas size and any state   *)
(* of the global generator.  Canvases are 60 pixels high or more: on a     *)
(* lower canvas create_matrix_background of the epic driver can divide by  *)
(* col_length // 20 = 0.                                                   *)
(***************************************************************************)
\* the generator states a render call starts in: 0..MaxRenderSeed
MaxRenderSeed == 3
\* the canvas sizes of a render call: the driver's and smaller ones
RenderSizes == {<<canvas_width, canvas_height>>, <<120, 90>>, <<33, 60>>}

\* generator(width, height, is_dark) of either driver
Render(script, theme_name, r, width, height, is_dark) ==
  IF script = "epic" THEN epic_generators(theme_name, r, width, height, is_dark)
  ELSE theme_generators(theme_name, r, width, height, is_dark)

RenderInit ==
  /\ NoDriver
  /\ call \in {Called("render",
                      [script |-> sc, theme_name |-> epic_generator_names[t],
                       width |-> size[1], height |-> size[2], is_dark |-> d, rng |-> r]) :
                 sc \in {"epic", "unique"}, t \in 1..Len(epic_generator_names),
                 size \in RenderSizes, d \in BOOLEAN, r \in 0..MaxRenderSeed}

RenderCall ==
  Returns("render",
          Render(call.args.script, call.args.theme_name, call.args.rng,
                 call.args.width, call.args.height, call.args.is_dark).image)

RenderNext == RenderCall

RenderSpec == RenderInit /\ [][RenderNext]_vars

\* pixel (px, py) is on the canvas of image
InCanvas(image, px, py) ==
  0 <= px /\ px < image.width /\ 0 <= py /\ py < image.height

\* a drawing call ImageDraw accepts without an error: its bounding box has
\* x0 <= x1 and y0 <= y1
WellFormedBox(op) == op.x0 <= op.x1 /\ op.y0 <= op.y1

\* drawing call op of image stays on the canvas: it is a call ImageDraw
\* accepts, and ImageDraw paints the pixels of a shape that are on the
\* canvas and no other; a pixel drawn on its own is on the canvas, and so
\* is the top of a matrix character
StaysOnCanvas(image, theme_name, op) ==
  /\ WellFormedBox(op)
  /\ op.shape = "point" => InCanvas(image, op.x0, op.y0)
  /\ theme_name = "matrix" /\ op.shape = "rect" => 0 <= op.y0 /\ op.y0 < image.height

LimbBits == 15
LimbBase == 2^LimbBits
MantissaBits == 53

RECURSIVE Pow2(_)
Pow2(k) == IF k = 0 THEN 1 ELSE 2 * Pow2(k - 1)

\* limb i of a, 0 beyond its length
Limb(a, i) == IF i <= Len(a) THEN a[i] ELSE 0

\* a without its leading zero limbs
RECURSIVE BigTrim(_)
BigTrim(a) ==
  IF a = <<>> THEN a
  ELSE IF a[Len(a)] = 0 THEN BigTrim(SubSeq(a, 1, Len(a) - 1)) ELSE a

\* a natural number below 2^30 as limbs
BigFromInt(n) == BigTrim(<<n % LimbBase, n \div LimbBase>>)

\* a number of at most two limbs as an integer
BigToInt(a) == Limb(a, 1) + LimbBase * Limb(a, 2)

\* the limbs from i on of a + b + carry
RECURSIVE BigAddFrom(_, _, _, _)
BigAddFrom(a, b, i, carry) ==
  IF i > Len(a) /\ i > Len(b)
    THEN IF carry = 0 THEN <<>> ELSE <<carry>>
    ELSE <<(Limb(a, i) + Limb(b, i) + carry) % LimbBase>>
           \o BigAddFrom(a, b, i + 1, (Limb(a, i) + Limb(b, i) + carry) \div LimbBase)

BigAdd(a, b) == BigAddFrom(a, b, 1, 0)

\* the limbs from i on of a - b - borrow, for a >= b
RECURSIVE BigSubFrom(_, _, _, _)
BigSubFrom(a, b, i, borrow) ==
  IF i > Len(a) THEN <<>>
  ELSE IF a[i] - Limb(b, i) - borrow < 0
    THEN <<a[i] - Limb(b, i) - borrow + LimbBase>> \o BigSubFrom(a, b, i + 1, 1)
    ELSE <<a[i] - Limb(b, i) - borrow>> \o BigSubFrom(a, b, i + 1, 0)

BigSub(a, b) == BigTrim(BigSubFrom(a, b, 1, 0))

\* a < b, comparing from limb i down (a and b of the same length)
RECURSIVE BigLessFrom(_, _, _)
BigLessFrom(a, b, i) ==
  IF i = 0 THEN FALSE
  ELSE IF a[i] # b[i] THEN a[i] < b[i]
  ELSE BigLessFrom(a, b, i - 1)

BigLess(a, b) ==
  IF Len(a) # Len(b) THEN Len(a) < Len(b) ELSE BigLessFrom(a, b, Len(a))

\* the limbs from i on of a * d + carry, for a limb d
RECURSIVE BigScaleFrom(_, _, _, _)
BigScaleFrom(a, d, i, carry) ==
  IF i > Len(a)
    THEN IF carry = 0 THEN <<>> ELSE <<carry>>
    ELSE <<(a[i] * d + carry) % LimbBase>>
           \o BigScaleFrom(a, d, i + 1, (a[i] * d + carry) \div LimbBase)

BigScale(a, d) == IF d = 0 THEN <<>> ELSE BigScaleFrom(a, d, 1, 0)

\* n zero limbs
ZeroLimbs(n) == [k \in 1..n |-> 0]

\* a * b: the sum of a * b[j] * LimbBase^(j-1) for j from i on
RECURSIVE BigMulFrom(_, _, _)
BigMulFrom(a, b, i) ==
  IF i > Len(b) THEN <<>>
  ELSE BigAdd(BigScale(a, b[i]), <<0>> \o BigMulFrom(a, b, i + 1))

BigMul(a, b) == BigTrim(BigMulFrom(a, b, 1))

\* a * 2^k
BigShiftLeft(a, k) ==
  IF a = <<>> THEN a
  ELSE ZeroLimbs(k \div LimbBits) \o BigScale(a, Pow2(k % LimbBits))

\* a with its r low bits dropped, for r below LimbBits
BigDropBits(a, r) ==
  BigTrim([i \in 1..Len(a) |->
             (a[i] \div Pow2(r)) + (Limb(a, i + 1) % Pow2(r)) * Pow2(LimbBits - r)])

\* floor(a / 2^k)
BigShiftRight(a, k) ==
  IF k \div LimbBits >= Len(a) THEN <<>>
  ELSE BigDropBits(SubSeq(a, k \div LimbBits + 1, Len(a)), k % LimbBits)

\* the number of bits of a limb and of a number
RECURSIVE LimbLen(_)
LimbLen(d) == IF d = 0 THEN 0 ELSE 1 + LimbLen(d \div 2)

BitLen(a) == IF a = <<>> THEN 0 ELSE LimbBits * (Len(a) - 1) + LimbLen(a[Len(a)])

BigOdd(a) == a # <<>> /\ a[1] % 2 = 1

\* the float 0.0, and the float of sign s, mantissa m and exponent e
FloatZero == [sign |-> 1, man |-> <<>>, exp |-> 0]
Float(s, m, e) == [sign |-> s, man |-> m, exp |-> e]

IsZero(x) == x.man = <<>>

\* q rounded up by one when the bits dropped from it, rem out of 2^k (and
\* more below them when sticky), are more than half, or half and q is odd
RoundUp(q, rem, k, sticky) ==
  IF BigLess(BigShiftLeft(<<1>>, k - 1), rem) THEN BigAdd(q, <<1>>)
  ELSE IF BigLess(rem, BigShiftLeft(<<1>>, k - 1)) THEN q
  ELSE IF sticky \/ BigOdd(q) THEN BigAdd(q, <<1>>)
  ELSE q

\* the float of sign s and mantissa q of 53 bits, or of 54 when rounding
\* carried into a new bit
Normal(s, q, e) ==
  IF BitLen(q) > MantissaBits THEN Float(s, BigShiftRight(q, 1), e + 1)
  ELSE Float(s, q, e)

\* the k low bits of m dropped, rounded
RoundBits(s, m, e, k, sticky) ==
  Normal(s, RoundUp(BigShiftRight(m, k),
                    BigSub(m, BigShiftLeft(BigShiftRight(m, k), k)), k, sticky),
         e + k)

\* the float nearest to s * (m + f) * 2^e, where 0 < f < 1 when sticky and
\* f = 0 otherwise; m has more than 53 bits when sticky
Round(s, m, e, sticky) ==
  IF m = <<>> THEN FloatZero
  ELSE IF BitLen(m) <= MantissaBits
    THEN Float(s, BigShiftLeft(m, MantissaBits - BitLen(m)),
               e - (MantissaBits - BitLen(m)))
    ELSE RoundBits(s, m, e, BitLen(m) - MantissaBits, sticky)

\* float(n) for an integer n of less than 30 bits
FromInt(n) == Round(IF n < 0 THEN -1 ELSE 1, BigFromInt(Abs(n)), 0, FALSE)

FNeg(x) == [x EXCEPT !.sign = -x.sign]
FAbs(x) == [x EXCEPT !.sign = 1]

\* the mantissa of x at exponent e <= x.exp
ManAt(x, e) == BigShiftLeft(x.man, x.exp - e)

\* the sum of two numbers of mantissas a and b at the same exponent e
AddAligned(sa, a, sb, b, e) ==
  IF sa = sb THEN Round(sa, BigAdd(a, b), e, FALSE)
  ELSE IF BigLess(a, b) THEN Round(sb, BigSub(b, a), e, FALSE)
  ELSE Round(sa, BigSub(a, b), e, FALSE)

\* x + y
FAdd(x, y) ==
  IF IsZero(x) THEN y
  ELSE IF IsZero(y) THEN x
  ELSE AddAligned(x.sign, ManAt(x, Min(x.exp, y.exp)),
                  y.sign, ManAt(y, Min(x.exp, y.exp)), Min(x.exp, y.exp))

\* x - y
FSub(x, y) == FAdd(x, FNeg(y))

\* x * y
FMul(x, y) ==
  IF IsZero(x) \/ IsZero(y) THEN FloatZero
  ELSE Round(x.sign * y.sign, BigMul(x.man, y.man), x.exp + y.exp, FALSE)

\* x < y
FLess(x, y) ==
  IF IsZero(x) THEN ~IsZero(y) /\ y.sign = 1
  ELSE IF IsZero(y) THEN x.sign = -1
  ELSE IF x.sign # y.sign THEN x.sign = -1
  ELSE IF x.sign = 1
    THEN BigLess(ManAt(x, Min(x.exp, y.exp)), ManAt(y, Min(x.exp, y.exp)))
    ELSE BigLess(ManAt(y, Min(x.exp, y.exp)), ManAt(x, Min(x.exp, y.exp)))

\* min(x, y) and max(x, y) of Python: the first argument unless the second
\* is smaller (larger)
FMin(x, y) == IF FLess(y, x) THEN y ELSE x
FMax(x, y) == IF FLess(x, y) THEN y ELSE x

\* one more quotient bit of st.rem / d appended to st.q, while st.n bits
\* are still to come
DivStep(st, d) ==
  IF st.n = 0 THEN st
  ELSE IF BigLess(BigShiftLeft(st.rem, 1), d)
    THEN [q |-> BigShiftLeft(st.q, 1), rem |-> BigShiftLeft(st.rem, 1),
          n |-> st.n - 1]
    ELSE [q |-> BigAdd(BigShiftLeft(st.q, 1), <<1>>),
          rem |-> BigSub(BigShiftLeft(st.rem, 1), d), n |-> st.n - 1]
DivStep4(st, d) == DivStep(DivStep(DivStep(DivStep(st, d), d), d), d)

\* the quotient bits of st.rem / d: st.n more bits appended to st.q, and
\* whether a remainder is left
RECURSIVE DivBits(_, _)
DivBits(st, d) ==
  IF st.n = 0 THEN [q |-> st.q, sticky |-> st.rem # <<>>]
  ELSE DivBits(DivStep4(DivStep4(st, d), d), d)

\* the quotient of mantissas a / b to 55 bits after the point
DivMan(a, b) ==
  IF BigLess(a, b)
    THEN DivBits([q |-> <<>>, rem |-> a, n |-> MantissaBits + 2], b)
    ELSE DivBits([q |-> <<1>>, rem |-> BigSub(a, b), n |-> MantissaBits + 2], b)

RoundQuotient(s, d, e) == Round(s, d.q, e, d.sticky)

\* x / y, for y # 0
FDiv(x, y) ==
  IF IsZero(x) THEN FloatZero
  ELSE RoundQuotient(x.sign * y.sign, DivMan(x.man, y.man),
                     x.exp - y.exp - (MantissaBits + 2))

\* int(x): x truncated toward zero, for |x| < 2^30
FTrunc(x) ==
  IF IsZero(x) THEN 0
  ELSE IF x.exp >= 0 THEN x.sign * BigToInt(BigShiftLeft(x.man, x.exp))
  ELSE x.sign * BigToInt(BigShiftRight(x.man, -x.exp))

\* bit st.k of the square root of n, added to st.r when the square stays
\* at or below n
WithBit(r, k) == BigAdd(r, BigShiftLeft(<<1>>, k))
SqrtStep(st, n) ==
  IF st.k < 0 THEN st
  ELSE IF BigLess(n, BigMul(WithBit(st.r, st.k), WithBit(st.r, st.k)))
    THEN [r |-> st.r, k |-> st.k - 1]
    ELSE [r |-> WithBit(st.r, st.k), k |-> st.k - 1]
SqrtStep4(st, n) == SqrtStep(SqrtStep(SqrtStep(SqrtStep(st, n), n), n), n)

\* the bits of the square root of n, from bit st.k down: the largest r
\* with r * r <= n
RECURSIVE SqrtBits(_, _)
SqrtBits(st, n) ==
  IF st.k < 0 THEN st.r
  ELSE SqrtBits(SqrtStep4(SqrtStep4(st, n), n), n)

RoundRoot(r, n, e) == Round(1, r, e, BigMul(r, r) # n)

\* math.sqrt(n) for an integer n, 0 <= n < 2^30: the root of n * 2^108
\* has 54 bits or more
FSqrt(n) ==
  IF n = 0 THEN FloatZero
  ELSE RoundRoot(SqrtBits([r |-> <<>>, k |-> 69],
                          BigShiftLeft(BigFromInt(n), 108)),
                 BigShiftLeft(BigFromInt(n), 108), -54)


(***************************************************************************)
(* The gradients of generate_png_backgrounds.py, pixel by pixel.  A        *)
(* gradient image is its size and the putpixel calls made on it, in order; *)
(* Image.new('RGB', (width, height)) starts every pixel black.             *)
(***************************************************************************)
One == FromInt(1)
Two == FromInt(2)
Tenths(n) == FDiv(FromInt(n), FromInt(10))
\* the literals 0.4, 0.7, 0.3 and 0.5 of the source
Lit04 == Tenths(4)
Lit07 == Tenths(7)
Lit03 == Tenths(3)
Lit05 == Tenths(5)

\* a channel interpolated from c2 back to c1
interpolate_channel_reversed(c1, c2, t) ==
  FTrunc(FAdd(FromInt(c2), FMul(FromInt(c1 - c2), t)))

\* int(c1 + (c2 - c1) * t) for one channel
interpolate_channel(c1, c2, t) ==
  FTrunc(FAdd(FromInt(c1), FMul(FromInt(c2 - c1), t)))

\* an interpolation that unpacks every channel into red
interpolate_color_red(color1, color2, t) ==
  <<interpolate_channel(color1[1], color2[1], t),
    interpolate_channel(color1[1], color2[1], t),
    interpolate_channel(color1[1], color2[1], t)>>

interpolate_color(color1, color2, t) ==
  <<interpolate_channel(color1[1], color2[1], t),
    interpolate_channel(color1[2], color2[2], t),
    interpolate_channel(color1[3], color2[3], t)>>

NewPixels(width, height) == [width |-> width, height |-> height, calls |-> <<>>]
\* a putpixel that takes its coordinates as (row, column)
putpixel_swapped(image, x, y, color) ==
  [image EXCEPT !.calls = Append(@, [x |-> y, y |-> x, color |-> color])]
\* image.putpixel((x, y), color)
putpixel(image, x, y, color) ==
  [image EXCEPT !.calls = Append(@, [x |-> x, y |-> y, color |-> color])]

\* center_x = int(center[0] * width), center_y = int(center[1] * height)
center_x(width, center) == FTrunc(FMul(center[1], FromInt(width)))
center_y(height, center) == FTrunc(FMul(center[2], FromInt(height)))

\* max_radius = math.sqrt(width**2 + height**2) / 2
max_radius(width, height) == FDiv(FSqrt(width * width + height * height), Two)

\* a distance measured from the corner (0, 0) of the canvas
distance_from_corner(x, y, cx, cy) == FSqrt(x * x + y * y)

\* distance = math.sqrt((x - center_x)**2 + (y - center_y)**2)
distance(x, y, cx, cy) == FSqrt((x - cx) * (x - cx) + (y - cy) * (y - cy))

\* normalized_distance = min(distance / max_radius, 1.0)
normalized_distance(d, radius) == FMin(FDiv(d, radius), One)

\* the colour of a pixel at normalized distance nd
radial_color(colors, nd) ==
  IF Len(colors) >= 3
    THEN IF FLess(nd, Lit04)
           THEN interpolate_color(colors[1], colors[2], FDiv(nd, Lit04))
         ELSE IF FLess(nd, Lit07)
           THEN interpolate_color(colors[2], colors[3],
                                  FDiv(FSub(nd, Lit04), Lit03))
         ELSE interpolate_color(colors[3], colors[1],
                                FDiv(FSub(nd, Lit07), Lit03))
    ELSE interpolate_color(colors[1], colors[Len(colors)], nd)

radial_pixel(width, height, colors, center, x, y) ==
  radial_color(colors,
               normalized_distance(distance(x, y, center_x(width, center),
                                            center_y(height, center)),
                                   max_radius(width, height)))

\* for x in range(width): ... image.putpixel((x, y), color)
RECURSIVE radial_row(_, _, _, _, _)
radial_row(image, colors, center, y, x) ==
  IF x >= image.width THEN image
  ELSE radial_row(putpixel(image, x, y,
                           radial_pixel(image.width, image.height, colors,
                                        center, x, y)),
                  colors, center, y, x + 1)

\* for y in range(height): for x in range(width): ...
RECURSIVE radial_rows(_, _, _, _)
radial_rows(image, colors, center, y) ==
  IF y >= image.height THEN image
  ELSE radial_rows(radial_row(image, colors, center, y, 0), colors, center, y + 1)

radial_gradient(width, height, colors, center) ==
  radial_rows(NewPixels(width, height), colors, center, 0)

\* math.cos(math.radians(angle)) and math.sin(math.radians(angle)), the
\* doubles the C library returns for the angles of the calls
cos_angle(angle) ==
  CASE angle = 0 -> One
    [] angle = 45 -> Float(1, <<15309, 19710, 633, 181>>, -53)
    [] angle = 90 -> Float(1, <<23559, 26152, 6296, 141>>, -106)
    [] angle = 135 -> Float(-1, <<15308, 19710, 633, 181>>, -53)
    [] angle = 180 -> FNeg(One)
sin_angle(angle) ==
  CASE angle = 0 -> FloatZero
    [] angle = 45 -> Float(1, <<15308, 19710, 633, 181>>, -53)
    [] angle = 90 -> One
    [] angle = 135 -> Float(1, <<15309, 19710, 633, 181>>, -53)
    [] angle = 180 -> Float(1, <<23559, 26152, 6296, 141>>, -105)

\* gradient_length = abs(width * cos_angle) + abs(height * sin_angle)
gradient_length(width, height, angle) ==
  FAdd(FAbs(FMul(FromInt(width), cos_angle(angle))),
       FAbs(FMul(FromInt(height), sin_angle(angle))))

\* a projection that takes the row for the column
projection_by_row(width, height, angle, x, y) ==
  FDiv(FAdd(FMul(FromInt(y), cos_angle(angle)),
            FMul(FromInt(x), sin_angle(angle))),
       gradient_length(width, height, angle))

\* (x * cos_angle + y * sin_angle) / gradient_length
projection(width, height, angle, x, y) ==
  FDiv(FAdd(FMul(FromInt(x), cos_angle(angle)),
            FMul(FromInt(y), sin_angle(angle))),
       gradient_length(width, height, angle))

\* position = max(0, min(1, position))
clamp(p) == FMax(FloatZero, FMin(One, p))
position(width, height, angle, x, y) ==
  clamp(projection(width, height, angle, x, y))

\* the colour of a pixel at position p
linear_color(colors, p) ==
  IF Len(colors) >= 3
    THEN IF FLess(p, Lit05)
           THEN interpolate_color(colors[1], colors[2], FMul(p, Two))
           ELSE interpolate_color(colors[2], colors[3],
                                  FMul(FSub(p, Lit05), Two))
    ELSE interpolate_color(colors[1], colors[Len(colors)], p)

linear_pixel(width, height, colors, angle, x, y) ==
  linear_color(colors, position(width, height, angle, x, y))

RECURSIVE linear_row(_, _, _, _, _)
linear_row(image, colors, angle, y, x) ==
  IF x >= image.width THEN image
  ELSE linear_row(putpixel(image, x, y,
                           linear_pixel(image.width, image.height, colors,
                                        angle, x, y)),
                  colors, angle, y, x + 1)

RECURSIVE linear_rows(_, _, _, _)
linear_rows(image, colors, angle, y) ==
  IF y >= image.height THEN image
  ELSE linear_rows(linear_row(image, colors, angle, y, 0), colors, angle, y + 1)

linear_gradient(width, height, colors, angle) ==
  linear_rows(NewPixels(width, height), colors, angle, 0)

(***************************************************************************)
(* A gradient function called on its own, on small canvases, with palettes *)
(* of one to four colours and several centres and angles.                  *)
(***************************************************************************)
GradientSizes == {<<1, 1>>, <<2, 2>>, <<3, 4>>, <<4, 2>>, <<4, 4>>}
GradientPalettes ==
  {<< <<10, 100, 200>> >>,
   << <<0, 0, 0>>, <<255, 255, 255>> >>,
   << <<10, 10, 10>>, <<0, 0, 0>>, <<20, 20, 20>> >>,
   << <<255, 0, 128>>, <<0, 255, 0>>, <<0, 0, 255>>, <<9, 9, 9>> >>}
\* centres, in tenths of the canvas: the default (0.5, 0.5) and others
GradientCenters == {<<5, 5>>, <<0, 0>>, <<3, 7>>, <<10, 10>>}
\* angles in degrees: the default 135 and others
GradientAngles == {0, 45, 90, 135, 180}

GradientInit ==
  /\ NoDriver
  /\ call \in
       {Called("create_radial_gradient",
               [width |-> size[1], height |-> size[2], colors |-> colors,
                center |-> <<Tenths(c[1]), Tenths(c[2])>>]) :
          size \in GradientSizes, colors \in GradientPalettes, c \in GradientCenters}
       \cup
       {Called("create_linear_gradient",
               [width |-> size[1], height |-> size[2], colors |-> colors,
                angle |-> angle]) :
          size \in GradientSizes, colors \in GradientPalettes, angle \in GradientAngles}

RadialCall ==
  Returns("create_radial_gradient",
          radial_gradient(call.args.width, call.args.height, call.args.colors,
                          call.args.center))

LinearCall ==
  Returns("create_linear_gradient",
          linear_gradient(call.args.width, call.args.height, call.args.colors,
                          call.args.angle))

GradientNext == RadialCall \/ LinearCall

GradientSpec == GradientInit /\ [][GradientNext]_vars

\* a gradient function has returned
GradientReturned ==
  Returned("create_radial_gradient") \/ Returned("create_linear_gradient")

\* the putpixel calls on image that assign pixel (x, y)
Assignments(image, x, y) ==
  {k \in 1..Len(image.calls) : image.calls[k].x = x /\ image.calls[k].y = y}

(***************************************************************************)
(* C13.  create_radial_gradient and create_linear_gradient return a canvas *)
(* of exactly the requested width and height in which every pixel is       *)
(* assigned exactly once and no putpixel call falls outside the canvas,    *)
(* for any palette of one or more colours.                                 *)
(***************************************************************************)
C13_EveryPixelAssignedOnce ==
  GradientReturned =>
    /\ call.value.width = call.args.width
    /\ call.value.height = call.args.height
    /\ Len(call.value.calls) = call.args.width * call.args.height
    /\ \A x \in 0..(call.args.width - 1), y \in 0..(call.args.height - 1) :
         Cardinality(Assignments(call.value, x, y)) = 1

\* a gradient of a single colour returned on a canvas that is not square
C13_Witness ==
  /\ GradientReturned
  /\ Len(call.args.colors) = 1
  /\ call.args.width = 3 /\ call.args.height = 4
  /\ Len(call.value.calls) = 12


(***************************************************************************)
(* hex_to_rgb called on its own, on every string of zero to two '#'        *)
(* followed by at most MaxHexLen characters of HexAlphabet.                *)
(***************************************************************************)
\* characters after the leading '#' of an argument of hex_to_rgb
MaxHexLen == 7
\* hex digits of both cases, a letter that is no hex digit, and a sign
HexAlphabet == {"0", "a", "F", "z", "-"}
HexBodies(len) == UNION {[1..n -> HexAlphabet] : n \in 0..len}
HexPrefixes == {<<>>, <<"#">>, <<"#", "#">>}
HexStrings(len) == {p \o b : p \in HexPrefixes, b \in HexBodies(len)}

HexInit ==
  NoDriver /\ call \in {Called("hex_to_rgb", s) : s \in HexStrings(MaxHexLen)}

HexCall == Returns("hex_to_rgb", hex_to_rgb(call.args))

HexNext == HexCall

HexSpec == HexInit /\ [][HexNext]_vars

\* s is six hexadecimal digits
SixHexDigits(s) == Len(s) = 6 /\ \A k \in 1..6 : s[k] \in HexDigit

\* s is six hexadecimal digits, optionally preceded by '#'
ValidHex(s) ==
  \/ SixHexDigits(s)
  \/ s # <<>> /\ Head(s) = "#" /\ SixHexDigits(Tail(s))

(***************************************************************************)
(* C14.  hex_to_rgb raises an error for every string that is not exactly   *)
(* six hexadecimal digits, optionally preceded by '#': no such string      *)
(* yields a colour triple.                                                 *)
(***************************************************************************)
C14_MalformedHexRaises ==
  Returned("hex_to_rgb") /\ ~ValidHex(call.args) => ~call.value.ok


\* the value of the two hex digits of s that start at position k
HexPair(s, k) == 16 * HexVal(s[k]) + HexVal(s[k + 1])

\* the six digits of a valid string
SixDigitsOf(s) == IF Head(s) = "#" THEN Tail(s) ELSE s

(***************************************************************************)
(* C15.  For every string of six hexadecimal digits RRGGBB, with or        *)
(* without a leading '#', hex_to_rgb returns the triple (value of RR,      *)
(* value of GG, value of BB), each component in 0..255.                    *)
(***************************************************************************)
C15_ValidHexGivesChannels ==
  Returned("hex_to_rgb") /\ ValidHex(call.args) =>
    /\ call.value.ok
    /\ call.value.rgb = <<HexPair(SixDigitsOf(call.args), 1),
                          HexPair(SixDigitsOf(call.args), 3),
                          HexPair(SixDigitsOf(call.args), 5)>>
    /\ \A k \in 1..3 : call.value.rgb[k] \in 0..255

\* the call hex_to_rgb("#0aF00F") returned (10, 240, 15)
C15_Witness ==
  /\ Returned("hex_to_rgb")
  /\ call.args = <<"#", "0", "a", "F", "0", "0", "F">>
  /\ call.value.ok /\ call.value.rgb = <<10, 240, 15>>


(***************************************************************************)
(* interpolate_color called on its own: two colours and a float t in       *)
(* [0, 1], a multiple of 1/MaxSteps or a float next to 0, 1/3, 2/3 or 1.   *)
(***************************************************************************)
\* t runs over k/MaxSteps, k in 0..MaxSteps
MaxSteps == 10
InterpColors ==
  {<<0, 0, 0>>, <<255, 255, 255>>, <<10, 100, 200>>, <<200, 100, 10>>}
Small == FDiv(One, FromInt(1073741824))
InterpTs ==
  {FDiv(FromInt(k), FromInt(MaxSteps)) : k \in 0..MaxSteps}
    \cup {Small, FSub(One, Small), FDiv(One, FromInt(3)), FDiv(Two, FromInt(3))}

InterpInit ==
  /\ NoDriver
  /\ call \in {Called("interpolate_color", [color1 |-> c1, color2 |-> c2, t |-> t]) :
                 c1 \in InterpColors, c2 \in InterpColors, t \in InterpTs}

InterpCall ==
  Returns("interpolate_color",
          interpolate_color(call.args.color1, call.args.color2, call.args.t))

InterpNext == InterpCall

InterpSpec == InterpInit /\ [][InterpNext]_vars

(***************************************************************************)
(* C16.  For all colours c1 and c2 with channels in 0..255,                *)
(* interpolate_color(c1, c2, 0) is exactly c1 and                          *)
(* interpolate_color(c1, c2, 1) is exactly c2.                             *)
(***************************************************************************)
C16_EndpointsExact ==
  Returned("interpolate_color") =>
    /\ IsZero(call.args.t) => call.value = call.args.color1
    /\ call.args.t = One => call.value = call.args.color2

\* interpolate_color((10, 100, 200), (200, 100, 10), 1) returned the second
\* colour
C16_Witness ==
  /\ Returned("interpolate_color")
  /\ call.args.t = One
  /\ call.args.color1 = <<10, 100, 200>>
  /\ call.value = <<200, 100, 10>>

\* t1 <= t2
FLessEq(t1, t2) == t1 = t2 \/ FLess(t1, t2)

\* channel value v2 is no closer to c1 than v1 is, on the way from c1 to c2
NoCloser(c1, c2, v1, v2) == IF c2 >= c1 THEN v1 <= v2 ELSE v1 >= v2

(***************************************************************************)
(* C17.  interpolate_color is monotonic per channel: for 0 <= t1 <= t2 <=  *)
(* 1, each channel of interpolate_color(c1, c2, t2) is no closer to c1's   *)
(* channel than the same channel of interpolate_color(c1, c2, t1), the     *)
(* truncation toward zero included.                                        *)
(***************************************************************************)
C17_MonotonicPerChannel ==
  Returned("interpolate_color") =>
    \A t1 \in InterpTs :
      FLessEq(t1, call.args.t) =>
        \A k \in 1..3 :
          NoCloser(call.args.color1[k], call.args.color2[k],
                   interpolate_channel(call.args.color1[k],
                                       call.args.color2[k], t1),
                   call.value[k])

\* a call with 0 < t < 1 that returned a rising and a falling channel, both
\* strictly between the channels of the two colours
C17_Witness ==
  /\ Returned("interpolate_color")
  /\ call.args.t = FDiv(One, FromInt(3))
  /\ call.args.color1 = <<10, 100, 200>> /\ call.args.color2 = <<200, 100, 10>>
  /\ 10 < call.value[1] /\ call.value[1] < 200
  /\ 10 < call.value[3] /\ call.value[3] < 200


\* the normalized distance of the k-th putpixel call of a returned radial
\* gradient
DistanceOfCall(k) ==
  normalized_distance(distance(call.value.calls[k].x, call.value.calls[k].y,
                               center_x(call.args.width, call.args.center),
                               center_y(call.args.height, call.args.center)),
                      max_radius(call.args.width, call.args.height))

\* a radial gradient of three or more colours has returned
RadialOfThreeReturned ==
  Returned("create_radial_gradient") /\ Len(call.args.colors) >= 3

(***************************************************************************)
(* C18.  In a radial gradient of three colours the colour of a pixel at    *)
(* normalized distance d follows the three segments d < 0.4, 0.4 <= d <    *)
(* 0.7 and d >= 0.7, so that it is color1 at d = 0.4, color2 at d = 0.7    *)
(* and color0 again at d = 1.                                              *)
(***************************************************************************)
C18_WrapsBackToFirstColour ==
  RadialOfThreeReturned =>
    \A k \in 1..Len(call.value.calls) :
      /\ call.value.calls[k].color = radial_color(call.args.colors, DistanceOfCall(k))
      /\ DistanceOfCall(k) = Lit04 => call.value.calls[k].color = call.args.colors[2]
      /\ DistanceOfCall(k) = Lit07 => call.value.calls[k].color = call.args.colors[3]
      /\ DistanceOfCall(k) = One => call.value.calls[k].color = call.args.colors[1]


\* the position along the gradient line of the k-th putpixel call of a
\* returned linear gradient
PositionOfCall(k) ==
  position(call.args.width, call.args.height, call.args.angle,
           call.value.calls[k].x, call.value.calls[k].y)

\* a linear gradient of three or more colours has returned, on a canvas of
\* three or more pixels each way
LinearOfThreeReturned ==
  /\ Returned("create_linear_gradient") /\ Len(call.args.colors) >= 3
  /\ call.args.width >= 3 /\ call.args.height >= 3

(***************************************************************************)
(* C19.  In a linear gradient of three colours a pixel at position p along *)
(* the gradient line is interpolate(color0, color1, 2p) for p < 0.5 and    *)
(* interpolate(color1, color2, 2(p - 0.5)) for p >= 0.5, and for every     *)
(* angle the positions of the canvas cover the range from color0 to        *)
(* color2: some pixel is at p = 0, with color0, and some pixel lies beyond *)
(* p = 0.5, in the segment that ends in color2.                            *)
(***************************************************************************)
C19_PositionsCoverBothSegments ==
  LinearOfThreeReturned =>
    /\ \A k \in 1..Len(call.value.calls) :
         call.value.calls[k].color =
           IF FLess(PositionOfCall(k), Lit05)
             THEN interpolate_color(call.args.colors[1], call.args.colors[2],
                                    FMul(PositionOfCall(k), Two))
             ELSE interpolate_color(call.args.colors[2], call.args.colors[3],
                                    FMul(FSub(PositionOfCall(k), Lit05), Two))
    /\ \E k \in 1..Len(call.value.calls) :
         IsZero(PositionOfCall(k)) /\ call.value.calls[k].color = call.args.colors[1]
    /\ \E k \in 1..Len(call.value.calls) : FLess(Lit05, PositionOfCall(k))


\* the k-th putpixel call of a returned radial gradient assigns the pixel
\* at the declared centre, (int(cx * width), int(cy * height))
AtDeclaredCentre(k) ==
  /\ call.value.calls[k].x = FTrunc(FMul(call.args.center[1], FromInt(call.args.width)))
  /\ call.value.calls[k].y = FTrunc(FMul(call.args.center[2], FromInt(call.args.height)))

(***************************************************************************)
(* C20.  In the image create_radial_gradient returns, for any palette and  *)
(* any declared centre (cx, cy), the pixel at (int(cx * width),            *)
(* int(cy * height)), when that position is on the canvas, has exactly the *)
(* colour color0.                                                          *)
(***************************************************************************)
C20_CentrePixelIsFirstColour ==
  Returned("create_radial_gradient") =>
    \A k \in 1..Len(call.value.calls) :
      AtDeclaredCentre(k) => call.value.calls[k].color = call.args.colors[1]

\* a radial gradient of three colours returned with its centre away from
\* the corner (0, 0), the centre pixel in color0 and another pixel not
C20_Witness ==
  /\ Returned("create_radial_gradient")
  /\ Len(call.args.colors) >= 3
  /\ \E k \in 1..Len(call.value.calls) :
       /\ AtDeclaredCentre(k)
       /\ call.value.calls[k].x > 0 /\ call.value.calls[k].y > 0
       /\ call.value.calls[k].color = call.args.colors[1]
  /\ \E k \in 1..Len(call.value.calls) :
       call.value.calls[k].color # call.args.colors[1]


\* a linear gradient from black to white at angle 0 has returned
BlackToWhiteReturned ==
  /\ Returned("create_linear_gradient")
  /\ call.args.colors = << <<0, 0, 0>>, <<255, 255, 255>> >>
  /\ call.args.angle = 0

\* the brightness of a colour: the sum of its channels
Brightness(color) == color[1] + color[2] + color[3]

(***************************************************************************)
(* C21.  In a two-colour linear gradient from black to white at angle 0,   *)
(* on any canvas, every pixel of a column has the same colour, brightness  *)
(* is non-decreasing from each column to the next on its right, the        *)
(* leftmost column is black and, on a canvas of two or more columns, the   *)
(* rightmost column is brighter than the leftmost.                         *)
(***************************************************************************)
C21_ColumnsBrightenLeftToRight ==
  BlackToWhiteReturned =>
    \A j, k \in 1..Len(call.value.calls) :
      /\ call.value.calls[j].x = call.value.calls[k].x =>
           call.value.calls[j].color = call.value.calls[k].color
      /\ call.value.calls[j].x <= call.value.calls[k].x =>
           Brightness(call.value.calls[j].color) <= Brightness(call.value.calls[k].color)
      /\ call.value.calls[j].x = 0 => call.value.calls[j].color = <<0, 0, 0>>
      /\ call.value.calls[j].x = 0 /\ call.value.calls[k].x = call.args.width - 1
           /\ call.args.width >= 2 =>
           Brightness(call.value.calls[j].color) < Brightness(call.value.calls[k].color)

\* the 4x4 gradient returned with the columns 0, 63, 127 and 191
C21_Witness ==
  /\ BlackToWhiteReturned
  /\ call.args.width = 4 /\ call.args.height = 4
  /\ \A k \in 1..16 :
       call.value.calls[k].color[1] =
         <<0, 63, 127, 191>>[call.value.calls[k].x + 1]


\* the same colour list in the other shape: a direct list L for an object
\* {"colors": L} and the object for the list; other data as it is
OtherShape(data) ==
  IF data.shape = "list" THEN ColorsObject(data.colors)
  ELSE IF data.shape = "object" /\ data.has_colors THEN DirectList(data.colors)
  ELSE data

\* the gradient driver is about to process mode pc of theme idx
AtVariant ==
  /\ driver = "gradient" /\ pc \in Modes /\ idx <= Len(themes)
  /\ themes[idx].entry.mapping

\* the step leaves the files, the counter, the log and the render calls of
\* progress st
StepGives(st) ==
  /\ files' = st.files
  /\ total_generated' = st.total_generated
  /\ log' = st.log
  /\ rendered' = st.rendered

(***************************************************************************)
(* C22.  The two configuration shapes are accepted alike: for any theme    *)
(* and mode, the gradient driver resolves a direct list L and an object    *)
(* {"colors": L} to the same palette, and the step that processes the mode *)
(* writes the files, with the content, that it would write had the colours *)
(* been given in the other shape.                                          *)
(***************************************************************************)
C22_ShapesAcceptedAlike ==
  [][AtVariant =>
       /\ resolve_colors(themes[idx].entry[pc])
            = resolve_colors(OtherShape(themes[idx].entry[pc]))
       /\ StepGives(generate_variant(Progress, idx, themes[idx].name, pc,
                                     OtherShape(themes[idx].entry[pc])))]_vars

\* a finished run in which one theme gave a colour list directly and the
\* next gave the same list in an object, and both got the same images
C22_Witness ==
  /\ driver = "gradient" /\ pc = "done" /\ Len(themes) = 2
  /\ themes[1].entry.mapping /\ themes[2].entry.mapping
  /\ themes[1].entry.dark.shape = "list"
  /\ themes[2].entry.dark.shape = "object"
  /\ themes[1].entry.dark.colors = themes[2].entry.dark.colors
  /\ <<themes[1].name, "dark", "radial">> \in DOMAIN files
  /\ <<themes[2].name, "dark", "linear">> \in DOMAIN files
  /\ files[<<themes[1].name, "dark", "linear">>]
       = files[<<themes[2].name, "dark", "linear">>]


(***************************************************************************)
(* C23.  The preview page a driver writes references only images that      *)
(* exist on disk: for every batch outcome, failed themes included, every   *)
(* image file the page references is a file of the output directory when   *)
(* the page is written.                                                    *)
(***************************************************************************)
C23_PreviewReferencesExistingFiles ==
  html.written =>
    \A k \in 1..Len(html.images) : html.images[k] \in DOMAIN files


\* the run met no error: no call raises and nothing failed
ErrorFree ==
  /\ faults = {}
  /\ \A k \in 1..Len(log) : log[k].msg \notin {"failed", "error"}

\* the modes of the document that give the gradient driver a colour list
ConfiguredModes ==
  {c \in (1..Len(themes)) \X Modes :
     /\ themes[c[1]].entry.mapping
     /\ resolve_colors(themes[c[1]].entry[c[2]]) # <<>>}

\* the (theme, mode, variant) combinations of a run: for the gradient
\* driver the configured modes, each as a radial and a linear gradient
Combinations ==
  CASE driver = "gradient" ->
         {gradient_path(themes[c[1]].name, c[2], kind) :
            c \in ConfiguredModes, kind \in {"radial", "linear"}}
    [] driver = "epic" ->
         {<<epic_generator_names[i], mode, "EPIC">> :
            i \in 1..Len(epic_generator_names), mode \in Modes}
    [] driver = "unique" ->
         {<<theme_generator_names[i], mode, "">> :
            i \in 1..Len(theme_generator_names), mode \in Modes}
    [] OTHER -> {}

\* every file on disk stays as it was written
FilesKept ==
  \A path \in DOMAIN files : path \in DOMAIN files' /\ files'[path] = files[path]

(***************************************************************************)
(* C24.  In a batch run without errors each driver writes exactly one PNG  *)
(* per (theme, mode[, variant]) combination, at the path of the            *)
(* combination: at the end the files are those of the combinations, as     *)
(* many as images were rendered, and no step of the run overwrites a file  *)
(* written earlier in the run.                                             *)
(***************************************************************************)
C24_OnePngPerCombination ==
  /\ [](ErrorFree /\ pc = "done" =>
          /\ DOMAIN files = Combinations
          /\ Len(rendered) = Cardinality(Combinations))
  /\ [][ErrorFree => FilesKept]_vars

\* a gradient run without errors that ended with eight files, and an epic
\* or unique run would end with six
C24_Witness ==
  /\ driver = "gradient" /\ pc = "done" /\ ErrorFree
  /\ Cardinality(DOMAIN files) = 8
  /\ Len(rendered) = 8


\* a hollow-knight renderer has returned
HollowReturned ==
  Returned("render") /\ call.args.theme_name = "hollow_knight_shadow"

\* the wisps of the returned image and the ellipses of one wisp
WispCount == IF call.args.script = "epic" THEN epic_hollow_wisps ELSE unique_hollow_wisps
WispLayers == IF call.args.script = "epic" THEN epic_hollow_layers ELSE unique_hollow_circles

\* layer l (from 1) of wisp w (from 0) of the returned image
WispLayer(w, l) == call.value.ops[w * WispLayers + l]

\* the size of an ellipse: the width of its bounding box
SizeOf(op) == op.x1 - op.x0

\* ellipse a is drawn with a smaller opacity than ellipse b
LowerAlpha(a, b) == a.num * b.den < b.num * a.den

(***************************************************************************)
(* C25.  In both hollow-knight renderers each wisp is 3 or 4 ellipses      *)
(* drawn in sequence, every layer after the first strictly smaller and of  *)
(* strictly smaller alpha than the layer before it, and every layer of     *)
(* positive size.                                                          *)
(***************************************************************************)
C25_WispLayersShrinkAndFade ==
  HollowReturned =>
    /\ WispLayers \in {3, 4}
    /\ Len(call.value.ops) >= WispCount * WispLayers
    /\ \A w \in 0..(WispCount - 1) :
         /\ \A l \in 1..WispLayers :
              WispLayer(w, l).shape = "circle" /\ SizeOf(WispLayer(w, l)) > 0
         /\ \A l \in 2..WispLayers :
              /\ SizeOf(WispLayer(w, l)) < SizeOf(WispLayer(w, l - 1))
              /\ LowerAlpha(WispLayer(w, l), WispLayer(w, l - 1))


(***************************************************************************)
(* aggressive_icon_fix.py.  The content of a file is a sequence of         *)
(* one-character strings; re.sub scans it from left to right, replaces the *)
(* leftmost match at each position and goes on after the match.            *)
(***************************************************************************)
\* the characters \w matches, and those \s matches
WordChars ==
    {"a", "b", "c", "d", "e", "f", "g", "h", "i", "j", "k", "l", "m",
     "n", "o", "p", "q", "r", "s", "t", "u", "v", "w", "x", "y", "z",
     "A", "B", "C", "D", "E", "F", "G", "H", "I", "J", "K", "L", "M",
     "N", "O", "P", "Q", "R", "S", "T", "U", "V", "W", "X", "Y", "Z",
     "0", "1", "2", "3", "4", "5", "6", "7", "8", "9", "_"}
SpaceChars == {" ", "\t", "\n"}

PhosphorIconsDot == <<"P", "h", "o", "s", "p", "h", "o", "r", "I", "c", "o", "n", "s", ".">>
ConstWord == <<"c", "o", "n", "s", "t">>
ConstSpace == <<"c", "o", "n", "s", "t", " ">>
CallParens == <<"(", ")">>
StateConst ==
  <<"s", "t", "a", "t", "e", " ", "=", " ", "c", "o", "n", "s",
    "t", " ", "N", "a", "v", "i", "g", "a", "t", "i", "o", "n",
    "S", "t", "a", "t", "e", "(">>
StatePlain ==
  <<"s", "t", "a", "t", "e", " ", "=", " ", "N", "a", "v", "i",
    "g", "a", "t", "i", "o", "n", "S", "t", "a", "t", "e", "(">>
StaticConst ==
  <<"s", "t", "a", "t", "i", "c", " ", "c", "o", "n", "s", "t",
    " ">>
StaticFinal ==
  <<"s", "t", "a", "t", "i", "c", " ", "f", "i", "n", "a", "l",
    " ">>
Equals == <<" ", "=", " ">>

\* the literal lit stands in s at position i
HasAt(s, i, lit) ==
  i + Len(lit) - 1 <= Len(s) /\ SubSeq(s, i, i + Len(lit) - 1) = lit

\* the end of the longest run of characters of set that starts at i: the
\* first position from i on whose character is not in set, or Len(s) + 1
RunEnd(s, i, set) ==
  CHOOSE j \in i..(Len(s) + 1) :
    /\ j = Len(s) + 1 \/ s[j] \notin set
    /\ \A k \in i..(j - 1) : s[k] \in set

\* the next state of a scan at st.i: the match up to end (exclusive) is
\* replaced by repl, or, without a match (end = 0), one character is copied
Scanned(s, st, end, repl) ==
  IF end = 0 THEN [i |-> st.i + 1, out |-> Append(st.out, s[st.i])]
  ELSE [i |-> end, out |-> st.out \o repl]

\* r'PhosphorIcons\.(\w+)(?!\()' at position i: the end of the match, 0
\* without one.  \w+ takes the longest run of word characters; when a '('
\* follows it, the lookahead fails and \w+ gives one character back, after
\* which the lookahead sees a word character and succeeds
Match1Name(s, a, e) ==
  IF e = a THEN 0
  ELSE IF e <= Len(s) /\ s[e] = "(" THEN (IF e - a >= 2 THEN e - 1 ELSE 0)
  ELSE e
Match1(s, i) ==
  IF HasAt(s, i, PhosphorIconsDot)
    THEN Match1Name(s, i + Len(PhosphorIconsDot),
                    RunEnd(s, i + Len(PhosphorIconsDot), WordChars))
    ELSE 0

\* r'PhosphorIcons.\1()'
Repl1(s, i, end) == SubSeq(s, i, end - 1) \o CallParens

\* content = re.sub(r'PhosphorIcons\.(\w+)(?!\()', r'PhosphorIcons.\1()', content)
RECURSIVE Sub1(_, _)
Sub1(s, st) ==
  IF st.i > Len(s) THEN st.out
  ELSE Sub1(s, Scanned(s, st, Match1(s, st.i), Repl1(s, st.i, Match1(s, st.i))))

\* the first ')' of s from position i on, or Len(s) + 1
FirstClose(s, i) ==
  CHOOSE j \in i..(Len(s) + 1) :
    /\ j = Len(s) + 1 \/ s[j] = ")"
    /\ \A k \in i..(j - 1) : s[k] # ")"

\* r'\([^)]*PhosphorIcons\.\w+\(\)' with the '(' at position open: [^)]*
\* runs to the first ')' at r, which has to close 'PhosphorIcons.name('.
\* The end of the match, 0 without one
IconCallAt(s, open, r) ==
  IF r <= Len(s)
     /\ \E j \in (open + 1)..(r - 1 - Len(PhosphorIconsDot)) :
          /\ HasAt(s, j, PhosphorIconsDot)
          /\ j + Len(PhosphorIconsDot) <= r - 2
          /\ s[r - 1] = "("
          /\ \A k \in (j + Len(PhosphorIconsDot))..(r - 2) : s[k] \in WordChars
    THEN r + 1
    ELSE 0
IconCallEnd(s, open) ==
  IF open <= Len(s) /\ s[open] = "("
    THEN IconCallAt(s, open, FirstClose(s, open + 1))
    ELSE 0

\* r'const\s+([\w]+)\s*' at position i, up to the '(' that has to follow:
\* the position of that '(', 0 without a match
ConstHead(s, i) ==
  IF ~HasAt(s, i, ConstWord) THEN 0
  ELSE IF RunEnd(s, i + Len(ConstWord), SpaceChars) = i + Len(ConstWord) THEN 0
  ELSE IF RunEnd(s, RunEnd(s, i + Len(ConstWord), SpaceChars), WordChars)
            = RunEnd(s, i + Len(ConstWord), SpaceChars) THEN 0
  ELSE RunEnd(s, RunEnd(s, RunEnd(s, i + Len(ConstWord), SpaceChars), WordChars),
              SpaceChars)

\* r'const\s+([\w]+)\s*\([^)]*PhosphorIcons\.\w+\(\)' at position i
Match2(s, i) ==
  IF ConstHead(s, i) = 0 THEN 0 ELSE IconCallEnd(s, ConstHead(s, i))

\* t.replace('const ', '')
RECURSIVE RemoveConst(_, _)
RemoveConst(t, st) ==
  IF st.i > Len(t) THEN st.out
  ELSE RemoveConst(t, Scanned(t, st,
                              IF HasAt(t, st.i, ConstSpace)
                                THEN st.i + Len(ConstSpace) ELSE 0,
                              <<>>))

\* lambda m: m.group(0).replace('const ', '')
Repl2(s, i, end) ==
  IF end = 0 THEN <<>>
  ELSE RemoveConst(SubSeq(s, i, end - 1), [i |-> 1, out |-> <<>>])

\* content = re.sub(r'const\s+([\w]+)\s*\([^)]*PhosphorIcons\.\w+\(\)', ...)
RECURSIVE Sub2(_, _)
Sub2(s, st) ==
  IF st.i > Len(s) THEN st.out
  ELSE Sub2(s, Scanned(s, st, Match2(s, st.i), Repl2(s, st.i, Match2(s, st.i))))

\* content = re.sub(r'state = const NavigationState\(', 'state = NavigationState(', content);
\* the substitution after it replaces a text by itself
RECURSIVE Sub3(_, _)
Sub3(s, st) ==
  IF st.i > Len(s) THEN st.out
  ELSE Sub3(s, Scanned(s, st,
                       IF HasAt(s, st.i, StateConst) THEN st.i + Len(StateConst) ELSE 0,
                       StatePlain))

\* r'static const (\w+) (\w+) = \1\(' from position i: the groups and the
\* position of the '(', open = 0 without a match.  a is where group 1
\* starts, b where it ends, d where group 2 ends
StaticGroups(s, a, b, d) ==
  IF b > a /\ HasAt(s, b, <<" ">>) /\ d > b + 1 /\ HasAt(s, d, Equals)
     /\ HasAt(s, d + Len(Equals), SubSeq(s, a, b - 1))
    THEN [open |-> d + Len(Equals) + (b - a),
          g1 |-> SubSeq(s, a, b - 1), g2 |-> SubSeq(s, b + 1, d - 1)]
    ELSE [open |-> 0, g1 |-> <<>>, g2 |-> <<>>]
StaticHead(s, i) ==
  IF HasAt(s, i, StaticConst)
    THEN StaticGroups(s, i + Len(StaticConst),
                      RunEnd(s, i + Len(StaticConst), WordChars),
                      RunEnd(s, RunEnd(s, i + Len(StaticConst), WordChars) + 1,
                             WordChars))
    ELSE [open |-> 0, g1 |-> <<>>, g2 |-> <<>>]

\* r'static const (\w+) (\w+) = \1\([^)]*PhosphorIcons\.\w+\(\)' at position i
Match4(s, i) ==
  IF StaticHead(s, i).open = 0 THEN 0 ELSE IconCallEnd(s, StaticHead(s, i).open)

\* r'static final \1 \2 = \1('
Repl4(h) == StaticFinal \o h.g1 \o <<" ">> \o h.g2 \o Equals \o h.g1 \o <<"(">>

\* content = re.sub(r'static const (\w+) (\w+) = \1\(...', r'static final \1 \2 = \1(', content)
RECURSIVE Sub4(_, _)
Sub4(s, st) ==
  IF st.i > Len(s) THEN st.out
  ELSE Sub4(s, Scanned(s, st, Match4(s, st.i), Repl4(StaticHead(s, st.i))))

ScanStart == [i |-> 1, out |-> <<>>]


(***************************************************************************)
(* fix_phosphor_icons run on one file, as main does for every .dart file   *)
(* under lib, and run again on the file it left, up to MaxRuns times.  The *)
(* call record holds the file on disk and, during a run, the local         *)
(* variables content and original_content and the statement reached.       *)
(***************************************************************************)
\* runs of fix_phosphor_icons on the same file
MaxRuns == 3
\* letters of the longest icon name of a file
MaxNameLen == 3

Letters == <<"a", "b", "c", "d", "e", "f", "g", "h">>
IconNames == {SubSeq(Letters, 1, n) : n \in 1..MaxNameLen}
\* what precedes the first reference to an icon
IconHeads ==
  {<<>>, <<"I", "(">>, ConstSpace \o <<"I", "(">>,
   ConstSpace \o <<"I", "(">> \o ConstSpace \o <<"J", "(">>,
   ConstWord \o <<"\n", "I", " ", "(">>,
   StaticConst \o <<"T", " ", "x">> \o Equals \o <<"T", "(">>,
   StaticConst \o <<"T", " ", "x">> \o Equals \o <<"U", "(">>,
   StateConst}
\* what follows an icon name
IconSuffixes == {<<>>, CallParens, <<"(">>, <<"(", "x", ")">>, <<")">>, <<".", "x">>}
IconRefs == {PhosphorIconsDot \o n \o x : n \in IconNames, x \in IconSuffixes}
\* a second reference, or none
IconSeconds == {<<>>} \cup {<<",", " ">> \o r : r \in IconRefs}
IconFiles == {h \o r \o t : h \in IconHeads, r \in IconRefs, t \in IconSeconds}

\* the call record of a file that no run has touched
FileRecord(file, readable) ==
  [fn |-> "fix_phosphor_icons",
   args |-> [content |-> file, readable |-> readable],
   returned |-> FALSE,
   value |-> [file |-> file, content |-> <<>>, original_content |-> <<>>,
              step |-> 0, runs |-> 0, result |-> FALSE]]

IconInit ==
  /\ NoDriver
  /\ call \in {FileRecord(file, TRUE) : file \in IconFiles}
              \cup {FileRecord(<<>>, FALSE)}

\* a statement of fix_phosphor_icons: the call record changes, nothing else
IconStep(value, returned) ==
  /\ call' = [call EXCEPT !.value = value, !.returned = returned]
  /\ UNCHANGED <<driver, enhanced_exists, basic_exists, themes, faults, pc, idx,
                 dir_exists, files, html, total_generated, log, rng, rendered,
                 rng2, files2>>

AtStep(n) == call.fn = "fix_phosphor_icons" /\ call.value.step = n

\* open and read the file; a file that cannot be read raises, and the
\* handler returns False
FixOpen ==
  /\ AtStep(0) /\ call.value.runs < MaxRuns
  /\ IF call.args.readable
       THEN IconStep([call.value EXCEPT !.content = call.value.file,
                                        !.original_content = call.value.file,
                                        !.step = 1], FALSE)
       ELSE IconStep([call.value EXCEPT !.runs = @ + 1, !.result = FALSE], TRUE)

\* 1. add () if missing
FixCalls ==
  /\ AtStep(1)
  /\ IconStep([call.value EXCEPT !.content = Sub1(@, ScanStart), !.step = 2], FALSE)

\* 2. remove const from constructors using PhosphorIcons
FixConst ==
  /\ AtStep(2)
  /\ IconStep([call.value EXCEPT !.content = Sub2(@, ScanStart), !.step = 3], FALSE)

\* 3. the NavigationState const
FixNavigation ==
  /\ AtStep(3)
  /\ IconStep([call.value EXCEPT !.content = Sub3(@, ScanStart), !.step = 4], FALSE)

\* 4. static const declarations with PhosphorIcons
FixStatic ==
  /\ AtStep(4)
  /\ IconStep([call.value EXCEPT !.content = Sub4(@, ScanStart), !.step = 5], FALSE)

\* write the file when the content changed, and return
FixWrite ==
  /\ AtStep(5)
  /\ IF call.value.content # call.value.original_content
       THEN IconStep([call.value EXCEPT !.file = call.value.content, !.step = 0,
                                        !.runs = @ + 1, !.result = TRUE], TRUE)
       ELSE IconStep([call.value EXCEPT !.step = 0, !.runs = @ + 1,
                                        !.result = FALSE], TRUE)

IconNext == FixOpen \/ FixCalls \/ FixConst \/ FixNavigation \/ FixStatic \/ FixWrite

IconSpec == IconInit /\ [][IconNext]_vars


\* a reference to an icon at position i of s: where its whole name ends
\* (exclusive), 0 when no reference starts at i
NameEnd(s, i) ==
  IF HasAt(s, i, PhosphorIconsDot)
     /\ RunEnd(s, i + Len(PhosphorIconsDot), WordChars) > i + Len(PhosphorIconsDot)
    THEN RunEnd(s, i + Len(PhosphorIconsDot), WordChars)
    ELSE 0
\* the reference that ends at e is already followed by '('
FollowedByParen(s, e) == e <= Len(s) /\ s[e] = "("

\* s with () appended to exactly the references that no '(' follows
RECURSIVE ParensWhereMissing(_, _)
ParensWhereMissing(s, st) ==
  IF st.i > Len(s) THEN st.out
  ELSE ParensWhereMissing(s,
         Scanned(s, st, NameEnd(s, st.i),
                 SubSeq(s, st.i, NameEnd(s, st.i) - 1)
                   \o (IF FollowedByParen(s, NameEnd(s, st.i))
                         THEN <<>> ELSE CallParens)))

\* C26: after step 1 of fix_phosphor_icons the content is the content read
\* with () appended to exactly the references PhosphorIcons.<name> that no
\* '(' follows; the references already followed by '(' are unchanged,
\* whatever the length of the name
C26_ParensAppendedOnlyWhereMissing ==
  AtStep(2) =>
    call.value.content = ParensWhereMissing(call.value.original_content, ScanStart)

\* the same holds of the files whose names are one letter long
C26_SingleLetterNames ==
  AtStep(2) /\ (\A i \in 1..Len(call.value.original_content) :
                  NameEnd(call.value.original_content, i)
                    \in {0, i + Len(PhosphorIconsDot) + 1})
    => call.value.content = ParensWhereMissing(call.value.original_content, ScanStart)


\* fix_phosphor_icons has already run on the file, and runs on it again
AlreadyFixed == call.fn = "fix_phosphor_icons" /\ call.value.runs >= 1

\* C27: fix_phosphor_icons is idempotent: a run on a file that an earlier
\* run has fixed finds nothing to change, leaves the file as it is and
\* returns False, so the file keeps the content the first run gave it
C27_SecondRunChangesNothing ==
  [][AlreadyFixed /\ AtStep(5)
       => call'.value.file = call.value.file /\ ~call'.value.result]_vars

\* a second run does change nothing when every reference of the file has a
\* name of one letter
C27_SingleLetterNames ==
  [][AlreadyFixed /\ AtStep(5)
     /\ (\A i \in 1..Len(call.args.content) :
           NameEnd(call.args.content, i) \in {0, i + Len(PhosphorIconsDot) + 1})
       => call'.value.file = call.value.file /\ ~call'.value.result]_vars


\* the PNG files the run has written
FilesWritten == DOMAIN files

HalfWritten ==
  {it \in Items : /\ driver = "gradient"
                  /\ gradient_path(themes[it[1]].name, it[2], "radial") \in FilesWritten
                  /\ gradient_path(themes[it[1]].name, it[2], "linear") \notin FilesWritten}

\* the reported total misses exactly the radial files of the half-written
\* gradients
C28_TotalMissesHalfWritten ==
  pc = "done" => Reported = {Cardinality(FilesWritten) - Cardinality(HalfWritten)}


(***************************************************************************)
(* create_demon_slayer_background of both scripts: columns of flame        *)
(* segments rising from the bottom edge.  A flame segment is recorded with *)
(* the drawing call's box and fill and with the column x, the layer and    *)
(* base_y - y, its height above the base.                                  *)
(***************************************************************************)
FlameOp(x0, y0, x1, y1, fill, color, num, den, column, layer, rise) ==
  [shape |-> "circle", x0 |-> x0, y0 |-> y0, x1 |-> x1, y1 |-> y1,
   fill |-> fill, color |-> color, num |-> num, den |-> den,
   column |-> column, layer |-> layer, rise |-> rise]

\* int(n / d) of Python for d > 0: the quotient truncated towards zero
IntOf(n, d) == IF n >= 0 THEN n \div d ELSE -((-n) \div d)

\* generate_unique_backgrounds.py: create_demon_slayer_background
unique_flame_bg(is_dark) == IF is_dark THEN <<20, 10, 5>> ELSE <<255, 248, 240>>
unique_flame_colors == << <<139, 0, 0>>, <<255, 69, 0>>, <<255, 140, 0>>, <<255, 215, 0>> >>
unique_flame_step == 15
unique_flame_rise == 10

\* flame_width = max(5, int(20 * (base_y - y) / flame_height))
unique_flame_width(rise, flame_height) == Max(5, IntOf(20 * rise, flame_height))
\* color_index = min(3, int(4 * (base_y - y) / flame_height))
unique_flame_color_index(rise, flame_height) == Min(3, IntOf(4 * rise, flame_height))

\* "for y in range(base_y, base_y - flame_height, -10)" of the column at x
\* (y = base_y - 10 * st.i)
RECURSIVE unique_flame_tongue(_, _, _, _, _)
unique_flame_tongue(st, x, base_y, flame_height, is_dark) ==
  LET y == base_y - unique_flame_rise * st.i
      flame_width == unique_flame_width(base_y - y, flame_height)
      color == unique_flame_colors[1 + unique_flame_color_index(base_y - y, flame_height)]
      s1 == RngNext(st.rng)
      offset == randint(s1, (-flame_width) \div 2, flame_width \div 2)
      s2 == RngNext(s1)
      alpha == randint(s2, 30, 80)
      final_color == Blend(unique_flame_bg(is_dark), color, alpha, 255)
      drawn == [rng |-> s2,
                image |-> Draw(st.image,
                   FlameOp(x + offset - flame_width \div 2, y - 5,
                           x + offset + flame_width \div 2, y + 5,
                           final_color, color, alpha, 255, x, 0, base_y - y)),
                i |-> st.i + 1]
  IN IF y <= base_y - flame_height \/ y < 0 THEN st
     ELSE unique_flame_tongue(drawn, x, base_y, flame_height, is_dark)

\* one iteration of "for x in range(0, width, 15)" (x = 15 * st.i)
unique_flame_column(st, width, height, is_dark) ==
  LoopEnd(unique_flame_tongue(
            LoopStart(RngNext(st.rng), st.image), unique_flame_step * st.i, height,
            randint(RngNext(st.rng), height \div 3, height), is_dark),
          st)

RECURSIVE unique_flame_loop(_, _, _, _)
unique_flame_loop(st, width, height, is_dark) ==
  IF st.i >= RangeLen(0, width, unique_flame_step) THEN st
  ELSE unique_flame_loop(unique_flame_column(st, width, height, is_dark),
                         width, height, is_dark)

unique_create_demon_slayer_background(seed, width, height, is_dark) ==
  unique_flame_loop(LoopStart(seed, NewImage(width, height, unique_flame_bg(is_dark))),
                    width, height, is_dark)

\* generate_epic_backgrounds.py: create_demon_slayer_background
epic_flame_bg(is_dark) == IF is_dark THEN <<10, 5, 0>> ELSE <<255, 248, 240>>
epic_flame_colors(is_dark) ==
  << <<139, 0, 0>>, <<255, 69, 0>>, <<255, 140, 0>>, <<255, 215, 0>>,
     IF is_dark THEN <<255, 255, 100>> ELSE <<255, 255, 200>> >>
epic_flame_step == 25
epic_flame_rise == 15
epic_flame_layers == 3
epic_flame_embers == 30

\* math.sin(y * 0.02) in units of 1/100000, for the rows y a flame segment
\* of a canvas up to 150 pixels high is drawn at
sin_002 ==
  [y \in {15 * k : k \in 0..10} |->
     CASE y = 0 -> 0 [] y = 15 -> 29552 [] y = 30 -> 56464 [] y = 45 -> 78333
       [] y = 60 -> 93204 [] y = 75 -> 99749 [] y = 90 -> 97385
       [] y = 105 -> 86321 [] y = 120 -> 67546 [] y = 135 -> 42738
       [] y = 150 -> 14112]

\* flame_width = max(3, int(25 * (1 - progress * 0.7))), progress being
\* rise / flame_height
epic_flame_width(rise, flame_height) ==
  Max(3, IntOf(250 * flame_height - 175 * rise, 10 * flame_height))
\* color_index = min(4, int(progress * 5))
epic_flame_color_index(rise, flame_height) == Min(4, IntOf(5 * rise, flame_height))
\* wind_offset = int(progress * 20 * math.sin(y * 0.02))
epic_wind_offset(rise, flame_height, y) ==
  IntOf(rise * 20 * sin_002[y], flame_height * 100000)

\* "for y in range(base_y, base_y - flame_height, -15)" of one layer of the
\* column at x (y = base_y - 15 * st.i); alpha in thousandths
RECURSIVE epic_flame_tongue(_, _, _, _, _, _, _)
epic_flame_tongue(st, x, layer, width, base_y, flame_height, is_dark) ==
  LET y == base_y - epic_flame_rise * st.i
      flame_width == epic_flame_width(base_y - y, flame_height)
      color == epic_flame_colors(is_dark)[1 + epic_flame_color_index(base_y - y,
                                                                       flame_height)]
      s1 == RngNext(st.rng)
      random_offset == randint(s1, (-flame_width) \div 3, flame_width \div 3)
      flame_x == x + epic_wind_offset(base_y - y, flame_height, y) + random_offset
                   + layer * 8
      s2 == RngNext(s1)
      \* alpha = random.uniform(0.3, 0.8) * (1 - layer * 0.2)
      num == uniform1000(s2, 300, 800) * (10 - 2 * layer)
      final_color == Blend(epic_flame_bg(is_dark), color, num, 10000)
      drawn == [rng |-> s2,
                image |-> Draw(st.image,
                   FlameOp(flame_x - flame_width \div 2, y - 8,
                           flame_x + flame_width \div 2, y + 8,
                           final_color, color, num, 10000, x, layer, base_y - y)),
                i |-> st.i + 1]
      skipped == [rng |-> s1, image |-> st.image, i |-> st.i + 1]
  IN IF y <= base_y - flame_height \/ y < 0 THEN st
     ELSE epic_flame_tongue(IF 0 <= flame_x /\ flame_x < width THEN drawn ELSE skipped,
                            x, layer, width, base_y, flame_height, is_dark)

\* "for layer in range(3)" of the column at x (layer = st.i)
RECURSIVE epic_flame_layer_loop(_, _, _, _, _, _)
epic_flame_layer_loop(st, x, width, base_y, flame_height, is_dark) ==
  IF st.i >= epic_flame_layers THEN st
  ELSE epic_flame_layer_loop(
         LoopEnd(epic_flame_tongue(LoopStart(st.rng, st.image), x, st.i, width, base_y,
                                   flame_height, is_dark),
                 st),
         x, width, base_y, flame_height, is_dark)

\* one iteration of "for x in range(0, width, 25)" (x = 25 * st.i)
epic_flame_column(st, width, height, is_dark) ==
  LoopEnd(epic_flame_layer_loop(
            LoopStart(RngNext(st.rng), st.image), epic_flame_step * st.i, width, height,
            randint(RngNext(st.rng), height \div 2, height), is_dark),
          st)

RECURSIVE epic_flame_loop(_, _, _, _)
epic_flame_loop(st, width, height, is_dark) ==
  IF st.i >= RangeLen(0, width, epic_flame_step) THEN st
  ELSE epic_flame_loop(epic_flame_column(st, width, height, is_dark),
                       width, height, is_dark)

\* one iteration of "for _ in range(30)": an ember
epic_flame_ember(st, width, height, is_dark) ==
  LET s1 == RngNext(st.rng)
      x == randint(s1, 0, width)
      s2 == RngNext(s1)
      y == randint(s2, 0, height)
      s3 == RngNext(s2)
      size == randint(s3, 1, 4)
      s4 == RngNext(s3)
      color == choice(s4, SubSeq(epic_flame_colors(is_dark), 3, 5))
      s5 == RngNext(s4)
      alpha == uniform1000(s5, 400, 900)
      final_color == Blend(epic_flame_bg(is_dark), color, alpha, 1000)
  IN [rng |-> s5,
      image |-> Draw(st.image,
                     DrawOp("circle", x - size, y - size, x + size, y + size,
                            final_color, color, alpha, 1000)),
      i |-> st.i + 1]

RECURSIVE epic_flame_ember_loop(_, _, _, _)
epic_flame_ember_loop(st, width, height, is_dark) ==
  IF st.i >= epic_flame_embers THEN st
  ELSE epic_flame_ember_loop(epic_flame_ember(st, width, height, is_dark),
                             width, height, is_dark)

epic_flames_done(seed, width, height, is_dark) ==
  epic_flame_loop(LoopStart(seed, NewImage(width, height, epic_flame_bg(is_dark))),
                  width, height, is_dark)

epic_create_demon_slayer_background(seed, width, height, is_dark) ==
  epic_flame_ember_loop(
    LoopStart(epic_flames_done(seed, width, height, is_dark).rng,
              epic_flames_done(seed, width, height, is_dark).image),
    width, height, is_dark)


(***************************************************************************)
(* create_demon_slayer_background called on its own, of either script, for *)
(* canvases up to 150 pixels high and any state of the global generator.   *)
(***************************************************************************)
\* the generator states a flame render starts in: 0..MaxFlameSeed
MaxFlameSeed == 5
FlameSizes == {<<120, 90>>, <<33, 60>>, <<60, 150>>}

FlameInit ==
  /\ NoDriver
  /\ call \in {Called("create_demon_slayer_background",
                      [script |-> sc, width |-> size[1], height |-> size[2],
                       is_dark |-> d, rng |-> r]) :
                 sc \in {"epic", "unique"}, size \in FlameSizes, d \in BOOLEAN,
                 r \in 0..MaxFlameSeed}

FlameCall ==
  Returns("create_demon_slayer_background",
          IF call.args.script = "epic"
            THEN epic_create_demon_slayer_background(
                   call.args.rng, call.args.width, call.args.height,
                   call.args.is_dark).image
            ELSE unique_create_demon_slayer_background(
                   call.args.rng, call.args.width, call.args.height,
                   call.args.is_dark).image)

FlameNext == FlameCall

FlameSpec == FlameInit /\ [][FlameNext]_vars

\* the flame segments of the image returned, by index of the drawing call
FlameSegments ==
  {k \in 1..Len(call.value.ops) : "rise" \in DOMAIN call.value.ops[k]}
\* the width of the box of a drawing call
BoxWidth(op) == op.x1 - op.x0
\* segment k is above segment j in the same flame
Above(j, k) ==
  /\ call.value.ops[j].column = call.value.ops[k].column
  /\ call.value.ops[j].layer = call.value.ops[k].layer
  /\ call.value.ops[j].rise < call.value.ops[k].rise

\* C29: a flame of either demon-slayer renderer gets narrower as it goes
\* up: of two segments of one flame column, the one higher above the base
\* is not the wider
C29_FlamesNarrowUpwards ==
  Returned("create_demon_slayer_background") =>
    \A j \in FlameSegments : \A k \in FlameSegments :
      Above(j, k) => BoxWidth(call.value.ops[k]) <= BoxWidth(call.value.ops[j])

\* the flames of the epic renderer do
C29_EpicFlamesNarrowUpwards ==
  Returned("create_demon_slayer_background") /\ call.args.script = "epic" =>
    \A j \in FlameSegments : \A k \in FlameSegments :
      Above(j, k) => BoxWidth(call.value.ops[k]) <= BoxWidth(call.value.ops[j])

\* the flames of the unique renderer get wider as they go up
C29_UniqueFlamesWidenUpwards ==
  Returned("create_demon_slayer_background") /\ call.args.script = "unique" =>
    /\ \A j \in FlameSegments : \A k \in FlameSegments :
         Above(j, k) => BoxWidth(call.value.ops[k]) >= BoxWidth(call.value.ops[j])
    /\ \E j \in FlameSegments : \E k \in FlameSegments :
         Above(j, k) /\ BoxWidth(call.value.ops[k]) > BoxWidth(call.value.ops[j])


(***************************************************************************)
(* create_cyberpunk_background of both scripts: neon grid lines whose      *)
(* colour is added to the background (epic) or scaled by the line's        *)
(* opacity (unique).                                                       *)
(***************************************************************************)
DrawAll(image, new_ops) == [image EXCEPT !.ops = @ \o new_ops]

\* the lines at x + offset (vertical) or y + offset (horizontal) for offset
\* in range(-reach, reach + 1) that fall on the canvas, each in the colour
\* fill(offset)
VerticalLines(x, reach, width, height, fill(_), color, num(_), den) ==
  SelectSeq([k \in 1..(2 * reach + 1) |->
               DrawOp("line", x - reach + k - 1, 0, x - reach + k - 1, height,
                      fill(k - 1 - reach), color, num(k - 1 - reach), den)],
            LAMBDA op : 0 <= op.x0 /\ op.x0 < width)
HorizontalLines(y, reach, width, height, fill(_), color, num(_), den) ==
  SelectSeq([k \in 1..(2 * reach + 1) |->
               DrawOp("line", 0, y - reach + k - 1, width, y - reach + k - 1,
                      fill(k - 1 - reach), color, num(k - 1 - reach), den)],
            LAMBDA op : 0 <= op.y0 /\ op.y0 < height)

\* generate_epic_backgrounds.py: create_cyberpunk_background
epic_neon_bg(is_dark) == IF is_dark THEN <<5, 5, 10>> ELSE <<240, 240, 245>>
epic_neon_colors(is_dark) ==
  IF is_dark THEN << <<255, 255, 0>>, <<255, 0, 255>>, <<0, 255, 255>> >>
  ELSE << <<200, 200, 0>>, <<200, 0, 200>>, <<0, 200, 200>> >>
epic_neon_grid_alpha(is_dark) == IF is_dark THEN 80 ELSE 40
epic_neon_grid_size == 30
epic_neon_rectangles == 8

\* a glow added to the background without a cap
epic_neon_uncapped(bg, glow_color) ==
  <<bg[1] + glow_color[1], bg[2] + glow_color[2], bg[3] + glow_color[3]>>
\* final_color = tuple(bg_color[i] + glow_color[i] for i in range(3));
\* final_color = tuple(min(255, c) for c in final_color)
epic_neon_final_color(bg, glow_color) ==
  <<Min(255, bg[1] + glow_color[1]), Min(255, bg[2] + glow_color[2]),
    Min(255, bg[3] + glow_color[3])>>

\* glow_color = tuple(int(c * (grid_alpha * glow / steps) / 255) for c in color)
epic_neon_glow_color(color, grid_alpha, glow, steps) ==
  <<IntOf(color[1] * grid_alpha * glow, steps * 255),
    IntOf(color[2] * grid_alpha * glow, steps * 255),
    IntOf(color[3] * grid_alpha * glow, steps * 255)>>

\* glow_color = tuple(int(c * 0.3) for c in color)
epic_neon_outline_glow(color) ==
  <<IntOf(color[1] * 3, 10), IntOf(color[2] * 3, 10), IntOf(color[3] * 3, 10)>>

\* "for glow in range(5, 0, -1)" of the vertical line at x (glow = 5 - st.i)
RECURSIVE epic_neon_vertical_glow(_, _, _, _, _, _)
epic_neon_vertical_glow(st, x, color, width, height, is_dark) ==
  IF st.i >= 5 THEN st
  ELSE epic_neon_vertical_glow(
         [st EXCEPT !.i = @ + 1,
                    !.image = DrawAll(@,
                      VerticalLines(x, 5 - st.i, width, height,
                        LAMBDA offset :
                          epic_neon_final_color(epic_neon_bg(is_dark),
                            epic_neon_glow_color(color, epic_neon_grid_alpha(is_dark),
                                                 5 - st.i, 5)),
                        color,
                        LAMBDA offset : epic_neon_grid_alpha(is_dark) * (5 - st.i),
                        5 * 255))],
         x, color, width, height, is_dark)

\* "for glow in range(3, 0, -1)" of the horizontal line at y (glow = 3 - st.i)
RECURSIVE epic_neon_horizontal_glow(_, _, _, _, _, _)
epic_neon_horizontal_glow(st, y, color, width, height, is_dark) ==
  IF st.i >= 3 THEN st
  ELSE epic_neon_horizontal_glow(
         [st EXCEPT !.i = @ + 1,
                    !.image = DrawAll(@,
                      HorizontalLines(y, 3 - st.i, width, height,
                        LAMBDA offset :
                          epic_neon_final_color(epic_neon_bg(is_dark),
                            epic_neon_glow_color(color, epic_neon_grid_alpha(is_dark),
                                                 3 - st.i, 3)),
                        color,
                        LAMBDA offset : epic_neon_grid_alpha(is_dark) * (3 - st.i),
                        3 * 255))],
         y, color, width, height, is_dark)

\* one iteration of "for x in range(0, width, grid_size)": the line is
\* drawn when random.random() < 0.4
epic_neon_vertical(st, width, height, is_dark) ==
  IF random1000(RngNext(st.rng)) < 400
    THEN LoopEnd(epic_neon_vertical_glow(
                   LoopStart(RngNext(RngNext(st.rng)), st.image),
                   epic_neon_grid_size * st.i,
                   choice(RngNext(RngNext(st.rng)), epic_neon_colors(is_dark)),
                   width, height, is_dark),
                 st)
    ELSE [st EXCEPT !.rng = RngNext(@), !.i = @ + 1]

\* one iteration of "for y in range(0, height, grid_size * 2)": the line is
\* drawn when random.random() < 0.3
epic_neon_horizontal(st, width, height, is_dark) ==
  IF random1000(RngNext(st.rng)) < 300
    THEN LoopEnd(epic_neon_horizontal_glow(
                   LoopStart(RngNext(RngNext(st.rng)), st.image),
                   2 * epic_neon_grid_size * st.i,
                   choice(RngNext(RngNext(st.rng)), epic_neon_colors(is_dark)),
                   width, height, is_dark),
                 st)
    ELSE [st EXCEPT !.rng = RngNext(@), !.i = @ + 1]

\* one iteration of "for _ in range(8)": the outline of a rectangle, its
\* glow being int(c * 0.3) of the neon colour
epic_neon_rectangle(st, width, height, is_dark) ==
  LET s1 == RngNext(st.rng)
      x == randint(s1, 0, width - 60)
      s2 == RngNext(s1)
      y == randint(s2, 0, height - 40)
      s3 == RngNext(s2)
      w == randint(s3, 20, 60)
      s4 == RngNext(s3)
      h == randint(s4, 10, 40)
      s5 == RngNext(s4)
      color == choice(s5, epic_neon_colors(is_dark))
      final_color == epic_neon_final_color(epic_neon_bg(is_dark),
                                           epic_neon_outline_glow(color))
  IN [rng |-> s5,
      image |-> Draw(st.image,
                     DrawOp("outline", x, y, x + w, y + h, final_color, color, 3, 10)),
      i |-> st.i + 1]

RECURSIVE epic_neon_vertical_loop(_, _, _, _)
epic_neon_vertical_loop(st, width, height, is_dark) ==
  IF st.i >= RangeLen(0, width, epic_neon_grid_size) THEN st
  ELSE epic_neon_vertical_loop(epic_neon_vertical(st, width, height, is_dark),
                               width, height, is_dark)

RECURSIVE epic_neon_horizontal_loop(_, _, _, _)
epic_neon_horizontal_loop(st, width, height, is_dark) ==
  IF st.i >= RangeLen(0, height, 2 * epic_neon_grid_size) THEN st
  ELSE epic_neon_horizontal_loop(epic_neon_horizontal(st, width, height, is_dark),
                                 width, height, is_dark)

RECURSIVE epic_neon_rectangle_loop(_, _, _, _)
epic_neon_rectangle_loop(st, width, height, is_dark) ==
  IF st.i >= epic_neon_rectangles THEN st
  ELSE epic_neon_rectangle_loop(epic_neon_rectangle(st, width, height, is_dark),
                                width, height, is_dark)

\* the state after a loop, ready for the next loop
NextLoop(st) == LoopStart(st.rng, st.image)

epic_create_cyberpunk_background(seed, width, height, is_dark) ==
  epic_neon_rectangle_loop(
    NextLoop(epic_neon_horizontal_loop(
      NextLoop(epic_neon_vertical_loop(
        LoopStart(seed, NewImage(width, height, epic_neon_bg(is_dark))),
        width, height, is_dark)),
      width, height, is_dark)),
    width, height, is_dark)

\* generate_unique_backgrounds.py: create_cyberpunk_background
unique_neon_bg(is_dark) == IF is_dark THEN <<13, 13, 13>> ELSE <<248, 248, 255>>
unique_neon_colors(is_dark) ==
  IF is_dark THEN << <<255, 255, 0>>, <<255, 0, 255>>, <<0, 191, 255>> >>
  ELSE << <<230, 230, 0>>, <<204, 0, 204>>, <<0, 128, 204>> >>
unique_neon_grid_size == 40

\* line_alpha = max(0, alpha - abs(offset) * fade)
unique_neon_line_alpha(alpha, offset, fade) == Max(0, alpha - Abs(offset) * fade)
\* line_color = tuple(int(c * line_alpha / 255) for c in color)
unique_neon_line_color(color, line_alpha) ==
  <<IntOf(color[1] * line_alpha, 255), IntOf(color[2] * line_alpha, 255),
    IntOf(color[3] * line_alpha, 255)>>

\* one iteration of "for x in range(0, width, grid_size)"
unique_neon_vertical(st, width, height, is_dark) ==
  LET s1 == RngNext(st.rng)
      color == choice(s1, unique_neon_colors(is_dark))
      s2 == RngNext(s1)
      alpha == randint(s2, 30, 80)
  IN [rng |-> s2,
      image |-> DrawAll(st.image,
         VerticalLines(unique_neon_grid_size * st.i, 2, width, height,
           LAMBDA offset :
             unique_neon_line_color(color, unique_neon_line_alpha(alpha, offset, 20)),
           color, LAMBDA offset : unique_neon_line_alpha(alpha, offset, 20), 255)),
      i |-> st.i + 1]

\* one iteration of "for y in range(0, height, grid_size * 3)"
unique_neon_horizontal(st, width, height, is_dark) ==
  LET s1 == RngNext(st.rng)
      color == choice(s1, unique_neon_colors(is_dark))
      s2 == RngNext(s1)
      alpha == randint(s2, 20, 60)
  IN [rng |-> s2,
      image |-> DrawAll(st.image,
         HorizontalLines(3 * unique_neon_grid_size * st.i, 1, width, height,
           LAMBDA offset :
             unique_neon_line_color(color, unique_neon_line_alpha(alpha, offset, 15)),
           color, LAMBDA offset : unique_neon_line_alpha(alpha, offset, 15), 255)),
      i |-> st.i + 1]

RECURSIVE unique_neon_vertical_loop(_, _, _, _)
unique_neon_vertical_loop(st, width, height, is_dark) ==
  IF st.i >= RangeLen(0, width, unique_neon_grid_size) THEN st
  ELSE unique_neon_vertical_loop(unique_neon_vertical(st, width, height, is_dark),
                                 width, height, is_dark)

RECURSIVE unique_neon_horizontal_loop(_, _, _, _)
unique_neon_horizontal_loop(st, width, height, is_dark) ==
  IF st.i >= RangeLen(0, height, 3 * unique_neon_grid_size) THEN st
  ELSE unique_neon_horizontal_loop(unique_neon_horizontal(st, width, height, is_dark),
                                   width, height, is_dark)

unique_create_cyberpunk_background(seed, width, height, is_dark) ==
  unique_neon_horizontal_loop(
    NextLoop(unique_neon_vertical_loop(
      LoopStart(seed, NewImage(width, height, unique_neon_bg(is_dark))),
      width, height, is_dark)),
    width, height, is_dark)


(***************************************************************************)
(* math.sin and math.cos to three decimal places: angles in thousandths of *)
(* a radian, values in thousandths.  The renderers use them for positions, *)
(* which the model so has to within a pixel.                               *)
(***************************************************************************)
Pi1000 == 3142
TwoPi1000 == 6283
\* sin of an angle a of the first quadrant, by its Taylor polynomial
\* a (1 - a^2/6 (1 - a^2/20 (1 - a^2/42)))
SinQuadrant(a) ==
  (a * (1000 - (((a * a) \div 1000)
                * (1000 - (((a * a) \div 1000) * (1000 - ((a * a) \div 1000) \div 42))
                            \div 20000))
               \div 6000))
    \div 1000
\* sin of an angle a of 0..TwoPi1000
SinTurn(a) ==
  IF a <= Pi1000 \div 2 THEN SinQuadrant(a)
  ELSE IF a <= Pi1000 THEN SinQuadrant(Pi1000 - a)
  ELSE IF a <= Pi1000 + Pi1000 \div 2 THEN -SinQuadrant(a - Pi1000)
  ELSE -SinQuadrant(TwoPi1000 - a)
sin1000(a) == SinTurn(a % TwoPi1000)
cos1000(a) == SinTurn((a + Pi1000 \div 2) % TwoPi1000)

\* generate_epic_backgrounds.py: create_vegeta_background
epic_vegeta_bg(is_dark) == IF is_dark THEN <<2, 2, 5>> ELSE <<248, 250, 252>>
epic_vegeta_colors(is_dark) ==
  << <<30, 58, 138>>, <<59, 130, 246>>, <<147, 197, 253>>,
     IF is_dark THEN <<255, 255, 255>> ELSE <<200, 200, 200>> >>
epic_vegeta_first_ring == 20
epic_vegeta_ring_step == 25
epic_vegeta_bolts == 12

\* intensity = max(0.1, 0.8 - (radius / 200)), in thousandths
epic_vegeta_intensity(radius) == Max(100, 800 - 5 * radius)
\* num_particles = int(radius * 0.3)
epic_vegeta_num_particles(radius) == IntOf(radius * 3, 10)

\* one iteration of "for i in range(num_particles)" of the ring of radius
\* (i = st.i); particle_alpha = intensity * random.uniform(0.3, 1.0), in
\* millionths
epic_vegeta_particle(st, radius, width, height, is_dark) ==
  LET color == epic_vegeta_colors(is_dark)[1 + Min(3, radius \div 60)]
      angle == (st.i * TwoPi1000) \div epic_vegeta_num_particles(radius)
      s1 == RngNext(st.rng)
      r == radius + randint(s1, -15, 15)
      s2 == RngNext(s1)
      particle_angle == angle + uniform1000(s2, -200, 200)
      x == width \div 2 + IntOf(r * cos1000(particle_angle), 1000)
      y == height \div 2 + IntOf(r * sin1000(particle_angle), 1000)
      s3 == RngNext(s2)
      particle_alpha == epic_vegeta_intensity(radius) * uniform1000(s3, 300, 1000)
      final_color == Blend(epic_vegeta_bg(is_dark), color, particle_alpha, 1000000)
      s4 == RngNext(s3)
      particle_size == randint(s4, 2, 8)
  IN IF 0 <= x /\ x < width /\ 0 <= y /\ y < height
       THEN [rng |-> s4,
             image |-> Draw(st.image,
                            CentredOp("circle", x, y, particle_size, final_color, color,
                                      particle_alpha, 1000000)),
             i |-> st.i + 1]
       ELSE [rng |-> s2, image |-> st.image, i |-> st.i + 1]

RECURSIVE epic_vegeta_particle_loop(_, _, _, _, _)
epic_vegeta_particle_loop(st, radius, width, height, is_dark) ==
  IF st.i >= epic_vegeta_num_particles(radius) THEN st
  ELSE epic_vegeta_particle_loop(
         epic_vegeta_particle(st, radius, width, height, is_dark),
         radius, width, height, is_dark)

\* "for radius in range(20, min(width, height) // 2, 25)"
\* (radius = 20 + 25 * st.i)
RECURSIVE epic_vegeta_ring_loop(_, _, _, _)
epic_vegeta_ring_loop(st, width, height, is_dark) ==
  IF st.i >= RangeLen(epic_vegeta_first_ring, Min(width, height) \div 2,
                      epic_vegeta_ring_step)
    THEN st
  ELSE epic_vegeta_ring_loop(
         LoopEnd(epic_vegeta_particle_loop(
                   NextLoop(st), epic_vegeta_first_ring + epic_vegeta_ring_step * st.i,
                   width, height, is_dark),
                 st),
         width, height, is_dark)

\* "for segment in range(bolt_length // 10)": the points of a bolt, in
\* thousandths of a pixel (st.points; the last one is the current point)
RECURSIVE epic_vegeta_segment_loop(_, _, _)
epic_vegeta_segment_loop(st, start_angle, segments) ==
  LET s1 == RngNext(st.rng)
      angle == start_angle + uniform1000(s1, -300, 300)
      s2 == RngNext(s1)
      segment_length == randint(s2, 8, 15)
      current == st.points[Len(st.points)]
  IN IF st.i >= segments THEN st
     ELSE epic_vegeta_segment_loop(
            [rng |-> s2, i |-> st.i + 1,
             points |-> Append(st.points,
                               <<current[1] + segment_length * cos1000(angle),
                                 current[2] + segment_length * sin1000(angle)>>)],
            start_angle, segments)

\* "for i in range(len(points) - 1)": the lines of a bolt, the i-th with
\* alpha = max(0.1, 0.6 - i * 0.05), in thousandths
epic_vegeta_bolt_lines(points, is_dark) ==
  [k \in 1..(Len(points) - 1) |->
     DrawOp("line", IntOf(points[k][1], 1000), IntOf(points[k][2], 1000),
            IntOf(points[k + 1][1], 1000), IntOf(points[k + 1][2], 1000),
            Blend(epic_vegeta_bg(is_dark), epic_vegeta_colors(is_dark)[2],
                  Max(100, 600 - 50 * (k - 1)), 1000),
            epic_vegeta_colors(is_dark)[2], Max(100, 600 - 50 * (k - 1)), 1000)]

\* one iteration of "for _ in range(12)": an energy bolt from the centre
epic_vegeta_bolt(st, width, height, is_dark) ==
  LET s1 == RngNext(st.rng)
      start_angle == uniform1000(s1, 0, TwoPi1000)
      s2 == RngNext(s1)
      bolt_length == randint(s2, 80, 150)
      bolt == epic_vegeta_segment_loop(
                [rng |-> s2, i |-> 0,
                 points |-> << <<1000 * (width \div 2), 1000 * (height \div 2)>> >>],
                start_angle, bolt_length \div 10)
  IN [rng |-> bolt.rng,
      image |-> DrawAll(st.image, epic_vegeta_bolt_lines(bolt.points, is_dark)),
      i |-> st.i + 1]

RECURSIVE epic_vegeta_bolt_loop(_, _, _, _)
epic_vegeta_bolt_loop(st, width, height, is_dark) ==
  IF st.i >= epic_vegeta_bolts THEN st
  ELSE epic_vegeta_bolt_loop(epic_vegeta_bolt(st, width, height, is_dark),
                             width, height, is_dark)

epic_create_vegeta_background(seed, width, height, is_dark) ==
  epic_vegeta_bolt_loop(
    NextLoop(epic_vegeta_ring_loop(
      LoopStart(seed, NewImage(width, height, epic_vegeta_bg(is_dark))),
      width, height, is_dark)),
    width, height, is_dark)


(***************************************************************************)
(* create_autumn_forest_background of both scripts: leaves, each with a    *)
(* stem in the leaf's colour darkened by 0.7.                              *)
(***************************************************************************)
\* int(c * 0.7) for a channel c of 0..255: c * 0.7 is a double, which for
\* c = 90, 170 and 180 lies just below the whole number 7c/10
StemChannel(c) == IF c \in {90, 170, 180} THEN (7 * c) \div 10 - 1 ELSE (7 * c) \div 10
\* stem_color = tuple(int(c * 0.7) for c in final_color)
stem_color(final_color) ==
  <<StemChannel(final_color[1]), StemChannel(final_color[2]), StemChannel(final_color[3])>>

\* generate_unique_backgrounds.py: create_autumn_forest_background
unique_autumn_bg(is_dark) == IF is_dark THEN <<26, 22, 17>> ELSE <<255, 251, 245>>
unique_autumn_colors(is_dark) ==
  IF is_dark THEN << <<191, 54, 12>>, <<255, 143, 0>>, <<230, 81, 0>> >>
  ELSE << <<216, 67, 21>>, <<255, 143, 0>>, <<106, 76, 57>> >>
unique_autumn_leaves == 30

\* one iteration of "for _ in range(30)": a leaf and its stem
unique_autumn_leaf(st, width, height, is_dark) ==
  LET s1 == RngNext(st.rng)
      x == randint(s1, 0, width)
      s2 == RngNext(s1)
      y == randint(s2, 0, height)
      s3 == RngNext(s2)
      color == choice(s3, unique_autumn_colors(is_dark))
      s4 == RngNext(s3)
      leaf_width == randint(s4, 8, 20)
      s5 == RngNext(s4)
      leaf_height == randint(s5, 12, 25)
      s6 == RngNext(s5)
      alpha == randint(s6, 30, 70)
      final_color == Blend(unique_autumn_bg(is_dark), color, alpha, 255)
      \* angle = random.randint(0, 360), which nothing uses
      s7 == RngNext(s6)
      s8 == RngNext(s7)
  IN [rng |-> s8,
      image |-> DrawAll(st.image,
         <<DrawOp("circle", x - leaf_width \div 2, y - leaf_height \div 2,
                  x + leaf_width \div 2, y + leaf_height \div 2,
                  final_color, color, alpha, 255),
           DrawOp("line", x, y, x + randint(s8, -5, 5), y + leaf_height \div 2 + 5,
                  stem_color(final_color), color, 7 * alpha, 10 * 255)>>),
      i |-> st.i + 1]

RECURSIVE unique_autumn_loop(_, _, _, _)
unique_autumn_loop(st, width, height, is_dark) ==
  IF st.i >= unique_autumn_leaves THEN st
  ELSE unique_autumn_loop(unique_autumn_leaf(st, width, height, is_dark),
                          width, height, is_dark)

unique_create_autumn_forest_background(seed, width, height, is_dark) ==
  unique_autumn_loop(LoopStart(seed, NewImage(width, height, unique_autumn_bg(is_dark))),
                     width, height, is_dark)

\* generate_epic_backgrounds.py: create_autumn_forest_background
epic_autumn_bg(is_dark) == IF is_dark THEN <<20, 15, 10>> ELSE <<255, 251, 245>>
epic_autumn_colors ==
  << <<139, 69, 19>>, <<205, 133, 63>>, <<255, 140, 0>>, <<255, 69, 0>>, <<178, 34, 34>> >>
epic_autumn_branch_color == <<101, 67, 33>>
epic_autumn_branches == 8
epic_autumn_leaves == 40
\* alpha = 0.3 if is_dark else 0.6, in tenths
epic_autumn_branch_alpha(is_dark) == IF is_dark THEN 3 ELSE 6

\* "for segment in range(branch_length // 20)": st.current is the current
\* point, in thousandths of a pixel; a segment is drawn when it starts on
\* the canvas
RECURSIVE epic_autumn_segment_loop(_, _, _, _, _)
epic_autumn_segment_loop(st, segments, width, height, is_dark) ==
  LET s1 == RngNext(st.rng)
      angle == uniform1000(s1, -500, 500) + Pi1000 \div 2
      s2 == RngNext(s1)
      segment_length == randint(s2, 15, 25)
      end == <<st.current[1] + segment_length * cos1000(angle),
               st.current[2] + segment_length * sin1000(angle)>>
      line == DrawOp("line", IntOf(st.current[1], 1000), IntOf(st.current[2], 1000),
                     IntOf(end[1], 1000), IntOf(end[2], 1000),
                     Blend(epic_autumn_bg(is_dark), epic_autumn_branch_color,
                           epic_autumn_branch_alpha(is_dark), 10),
                     epic_autumn_branch_color, epic_autumn_branch_alpha(is_dark), 10)
  IN IF st.i >= segments THEN st
     ELSE epic_autumn_segment_loop(
            [rng |-> s2, i |-> st.i + 1, current |-> end,
             image |-> IF 0 <= st.current[1] /\ st.current[1] < 1000 * width
                          /\ 0 <= st.current[2] /\ st.current[2] < 1000 * height
                         THEN Draw(st.image, line) ELSE st.image],
            segments, width, height, is_dark)

\* one iteration of "for _ in range(8)": a branch
epic_autumn_branch(st, width, height, is_dark) ==
  LET s1 == RngNext(st.rng)
      start_x == randint(s1, -50, width + 50)
      s2 == RngNext(s1)
      start_y == randint(s2, 0, height \div 2)
      s3 == RngNext(s2)
      branch_length == randint(s3, 100, 200)
      branch == epic_autumn_segment_loop(
                  [rng |-> s3, i |-> 0, current |-> <<1000 * start_x, 1000 * start_y>>,
                   image |-> st.image],
                  branch_length \div 20, width, height, is_dark)
  IN [rng |-> branch.rng, image |-> branch.image, i |-> st.i + 1]

\* one iteration of "for _ in range(40)": a leaf and its stem
epic_autumn_leaf(st, width, height, is_dark) ==
  LET s1 == RngNext(st.rng)
      x == randint(s1, 0, width)
      s2 == RngNext(s1)
      y == randint(s2, 0, height)
      s3 == RngNext(s2)
      color == choice(s3, epic_autumn_colors)
      s4 == RngNext(s3)
      leaf_width == randint(s4, 8, 16)
      s5 == RngNext(s4)
      leaf_height == randint(s5, 12, 20)
      \* rotation = random.uniform(0, 2 * math.pi), which nothing uses
      s6 == RngNext(s5)
      s7 == RngNext(s6)
      alpha == uniform1000(s7, 600, 900)
      final_color == Blend(epic_autumn_bg(is_dark), color, alpha, 1000)
      s8 == RngNext(s7)
      stem_end_x == x + randint(s8, -3, 3)
      s9 == RngNext(s8)
      stem_end_y == y + leaf_height \div 2 + randint(s9, 3, 8)
  IN [rng |-> s9,
      image |-> DrawAll(st.image,
         <<DrawOp("circle", x - leaf_width \div 2, y - leaf_height \div 2,
                  x + leaf_width \div 2, y + leaf_height \div 2,
                  final_color, color, alpha, 1000),
           DrawOp("line", x, y, stem_end_x, stem_end_y,
                  stem_color(final_color), color, 7 * alpha, 10000)>>),
      i |-> st.i + 1]

RECURSIVE epic_autumn_branch_loop(_, _, _, _)
epic_autumn_branch_loop(st, width, height, is_dark) ==
  IF st.i >= epic_autumn_branches THEN st
  ELSE epic_autumn_branch_loop(epic_autumn_branch(st, width, height, is_dark),
                               width, height, is_dark)

RECURSIVE epic_autumn_leaf_loop(_, _, _, _)
epic_autumn_leaf_loop(st, width, height, is_dark) ==
  IF st.i >= epic_autumn_leaves THEN st
  ELSE epic_autumn_leaf_loop(epic_autumn_leaf(st, width, height, is_dark),
                             width, height, is_dark)

epic_create_autumn_forest_background(seed, width, height, is_dark) ==
  epic_autumn_leaf_loop(
    NextLoop(epic_autumn_branch_loop(
      LoopStart(seed, NewImage(width, height, epic_autumn_bg(is_dark))),
      width, height, is_dark)),
    width, height, is_dark)


(***************************************************************************)
(* Every function that computes a colour for a drawing call, called on     *)
(* its own: the renderers of both scripts, the two gradient functions and  *)
(* interpolate_color.  The cyberpunk renderer of the epic script draws     *)
(* rectangles from random.randint(0, width - 60) and                       *)
(* random.randint(0, height - 40), so the canvases are 60 by 40 or more.   *)
(***************************************************************************)
\* the generator states a call of a renderer starts in: 0..MaxPaintSeed
MaxPaintSeed == 3
PaintSizes == {<<canvas_width, canvas_height>>, <<120, 90>>, <<61, 150>>}

\* the calls of fn of the scripts, on every canvas, in both modes
PaintCalls(fn, scripts) ==
  {Called(fn, [script |-> sc, width |-> size[1], height |-> size[2],
               is_dark |-> d, rng |-> r]) :
     sc \in scripts, size \in PaintSizes, d \in BOOLEAN, r \in 0..MaxPaintSeed}

PaintInit ==
  /\ NoDriver
  /\ call \in PaintCalls("create_cyberpunk_background", {"epic", "unique"})
                \cup PaintCalls("create_vegeta_background", {"epic"})
                \cup PaintCalls("create_autumn_forest_background", {"epic", "unique"})

ColourInit == PaintInit \/ RenderInit \/ FlameInit \/ GradientInit \/ InterpInit

CyberpunkCall ==
  Returns("create_cyberpunk_background",
          IF call.args.script = "epic"
            THEN epic_create_cyberpunk_background(
                   call.args.rng, call.args.width, call.args.height,
                   call.args.is_dark).image
            ELSE unique_create_cyberpunk_background(
                   call.args.rng, call.args.width, call.args.height,
                   call.args.is_dark).image)

VegetaCall ==
  Returns("create_vegeta_background",
          epic_create_vegeta_background(
            call.args.rng, call.args.width, call.args.height, call.args.is_dark).image)

AutumnCall ==
  Returns("create_autumn_forest_background",
          IF call.args.script = "epic"
            THEN epic_create_autumn_forest_background(
                   call.args.rng, call.args.width, call.args.height,
                   call.args.is_dark).image
            ELSE unique_create_autumn_forest_background(
                   call.args.rng, call.args.width, call.args.height,
                   call.args.is_dark).image)

ColourNext ==
  \/ CyberpunkCall \/ VegetaCall \/ AutumnCall
  \/ RenderCall \/ FlameCall \/ RadialCall \/ LinearCall \/ InterpCall

ColourSpec == ColourInit /\ [][ColourNext]_vars

\* the functions that return a canvas with its drawing calls
Renderers ==
  {"render", "create_demon_slayer_background", "create_cyberpunk_background",
   "create_vegeta_background", "create_autumn_forest_background"}

\* the colours the call that returned passed to a drawing call: the fills
\* and outlines of a renderer's shapes and lines, the colours of a
\* gradient's putpixel calls, the colour interpolate_color returned
ColoursPassed ==
  IF call.fn \in Renderers
    THEN {call.value.ops[k].fill : k \in 1..Len(call.value.ops)}
  ELSE IF call.fn = "interpolate_color" THEN {call.value}
  ELSE {call.value.calls[k].color : k \in 1..Len(call.value.calls)}

\* a colour of three whole channels of 0..255
ByteColour(color) ==
  /\ Len(color) = 3
  /\ \A c \in 1..3 : color[c] \in Int /\ 0 <= color[c] /\ color[c] <= 255

\* C30: every colour a renderer or a gradient function passes to a drawing
\* call has three whole channels of 0 to 255, the alpha blends against the
\* background, the neon glow added to the background and capped at 255, the
\* stems darkened by 0.7 and the colours of interpolate_color among them
C30_ChannelsWithinByte ==
  call.returned => \A color \in ColoursPassed : ByteColour(color)

\* a light cyberpunk canvas of the epic script with a neon line on which the
\* glow added to the background passes 255 and is capped
NeonCapped(op) ==
  /\ op.shape = "line"
  /\ \E c \in 1..3 : /\ op.fill[c] = 255
                     /\ epic_neon_bg(call.args.is_dark)[c]
                          + IntOf(op.color[c] * op.num, op.den) > 255
C30_Witness ==
  /\ Returned("create_cyberpunk_background")
  /\ call.args.script = "epic" /\ ~call.args.is_dark
  /\ \E k \in 1..Len(call.value.ops) : NeonCapped(call.value.ops[k])
=============================================================================
